---------------------------- MODULE Spec2Model ----------------------------
(***************************************************************************)
(* State-machine model of the SPY 0DTE gap-trading decision engine:        *)
(* the tiered data resolvers, the four analyzers, the entry decision       *)
(* engine with its trading-window gate, and the exit evaluator.            *)
(*                                                                         *)
(* Fixed-point conventions (the program computes in floats):               *)
(*   points       : hundredths of a point      (7.0 pts   -> 700)          *)
(*   percentages  : hundredths of a percent    (0.25 %    -> 25)           *)
(*   prices       : cents                      ($640.27   -> 64027)        *)
(*   ratios       : hundredths                 (1.5x      -> 150)          *)
(*   time of day  : seconds since midnight     (09:45:00  -> 35100)        *)
(*   weekday      : 0 = Monday ... 6 = Sunday  (datetime.weekday())        *)
(***************************************************************************)
EXTENDS Integers, Sequences, FiniteSets, TLC

VARIABLES
    pc,            \* position of the running request
    now,           \* wall clock: datetime.now() as [wd, sec], time.time() as a number
    feeds,         \* what the upstream feeds answer during this request
    gap_analysis,  \* result of GapAnalyzer.calculate_gap_analysis
    internals,     \* result of InternalsAnalyzer.analyze_market_internals
    sectors,       \* result of SectorAnalyzer.analyze_sectors
    technicals,    \* result of TechnicalAnalyzer.analyze_technicals
    spy_data,      \* result of GapAnalyzer.get_spy_data_enhanced
    analysis,      \* result of EntrySignalGenerator.get_final_decision
    window_info,   \* result of main.get_trading_window_status
    position,      \* the position record handed to the exit evaluator
    exit_signals,  \* the exit_signals dict built by get_exit_signals
    calls,         \* per resolver: the tiers its last run invoked, in order
    session_state, \* streamlit's st.session_state, kept between reruns
    alerts,        \* the signal-change alerts emitted so far, oldest first
    yahoo_limiter, \* the module-level ImprovedYahooRateLimiter object
    download       \* the running safe_yahoo_download call

vars == <<pc, now, feeds, gap_analysis, internals, sectors, technicals,
          spy_data, analysis, window_info, position, exit_signals, calls,
          session_state, alerts, yahoo_limiter, download>>

entry_vars == <<gap_analysis, internals, sectors, technicals, spy_data,
                analysis, window_info>>
exit_vars == <<position, exit_signals>>
alert_vars == <<session_state, alerts>>
yahoo_vars == <<yahoo_limiter, download>>

(***************************************************************************)
(* Generic helpers                                                         *)
(***************************************************************************)
\* Python's None and an absent result
None == [kind |-> "None"]
NoResult == [kind |-> "absent"]

\* the empty dict {} and Python's truth test on a dict
EmptyDict == [k \in {} |-> 0]
Truthy(d) == DOMAIN d # {}

\* dict.get(key, default)
Get(d, k, default) == IF k \in DOMAIN d THEN d[k] ELSE default

Max(a, b) == IF a >= b THEN a ELSE b
Min(a, b) == IF a <= b THEN a ELSE b
Abs(a) == IF a >= 0 THEN a ELSE -a

\* Python's a / b on the fixed-point integers, rounded toward minus infinity
Div(a, b) == a \div b

(***************************************************************************)
(* config.py                                                               *)
(***************************************************************************)
strong_signal == 700
moderate_signal == 500

DECISION_THRESHOLDS ==
    [strong_signal |-> strong_signal, moderate_signal |-> moderate_signal]

(***************************************************************************)
(* GapAnalyzer.check_trading_window                                        *)
(***************************************************************************)
HMS(h, m, s) == h * 3600 + m * 60 + s

market_open == HMS(9, 30, 0)
trading_start == HMS(9, 45, 0)
trading_end == HMS(11, 0, 0)
lunch_start == HMS(11, 30, 0)
danger_zone == HMS(14, 30, 0)
market_close == HMS(16, 0, 0)

\* check_trading_window with the Sunday branch left out
check_trading_window_mut_sunday(t) ==
    IF ~(t.wd < 5) /\ t.wd = 5
      THEN [ok |-> FALSE, msg |-> "Weekend (Saturday) - Market opens Monday"]
    ELSE IF t.sec < market_open
      THEN [ok |-> FALSE, msg |-> "Market opens in"]
    ELSE IF t.sec < trading_start
      THEN [ok |-> FALSE, msg |-> "OPENING VOLATILITY"]
    ELSE IF t.sec <= trading_end
      THEN [ok |-> TRUE, msg |-> "PRIME 0DTE WINDOW"]
    ELSE IF t.sec < lunch_start
      THEN [ok |-> FALSE, msg |-> "POST-WINDOW"]
    ELSE IF t.sec < danger_zone
      THEN [ok |-> FALSE, msg |-> "LUNCH DOLDRUMS"]
    ELSE IF t.sec < market_close
      THEN [ok |-> FALSE, msg |-> "DANGER ZONE"]
    ELSE [ok |-> FALSE, msg |-> "Market closed - Next 0DTE window"]

\* check_trading_window with the prime window's upper bound exclusive
check_trading_window_mut_exclusive(t) ==
    IF ~(t.wd < 5) /\ t.wd = 5
      THEN [ok |-> FALSE, msg |-> "Weekend (Saturday) - Market opens Monday"]
    ELSE IF ~(t.wd < 5) /\ t.wd = 6
      THEN [ok |-> FALSE, msg |-> "Weekend (Sunday) - Market opens Monday"]
    ELSE IF t.sec < market_open
      THEN [ok |-> FALSE, msg |-> "Market opens in"]
    ELSE IF t.sec < trading_start
      THEN [ok |-> FALSE, msg |-> "OPENING VOLATILITY"]
    ELSE IF t.sec < trading_end
      THEN [ok |-> TRUE, msg |-> "PRIME 0DTE WINDOW"]
    ELSE IF t.sec < lunch_start
      THEN [ok |-> FALSE, msg |-> "POST-WINDOW"]
    ELSE IF t.sec < danger_zone
      THEN [ok |-> FALSE, msg |-> "LUNCH DOLDRUMS"]
    ELSE IF t.sec < market_close
      THEN [ok |-> FALSE, msg |-> "DANGER ZONE"]
    ELSE [ok |-> FALSE, msg |-> "Market closed - Next 0DTE window"]

\* The window message is modelled by its fixed leading text; the numbers the
\* f-strings interpolate are left out.
check_trading_window(t) ==
    IF ~(t.wd < 5) /\ t.wd = 5
      THEN [ok |-> FALSE, msg |-> "Weekend (Saturday) - Market opens Monday"]
    ELSE IF ~(t.wd < 5) /\ t.wd = 6
      THEN [ok |-> FALSE, msg |-> "Weekend (Sunday) - Market opens Monday"]
    ELSE IF t.sec < market_open
      THEN [ok |-> FALSE, msg |-> "Market opens in"]
    ELSE IF t.sec < trading_start
      THEN [ok |-> FALSE, msg |-> "OPENING VOLATILITY"]
    ELSE IF t.sec <= trading_end
      THEN [ok |-> TRUE, msg |-> "PRIME 0DTE WINDOW"]
    ELSE IF t.sec < lunch_start
      THEN [ok |-> FALSE, msg |-> "POST-WINDOW"]
    ELSE IF t.sec < danger_zone
      THEN [ok |-> FALSE, msg |-> "LUNCH DOLDRUMS"]
    ELSE IF t.sec < market_close
      THEN [ok |-> FALSE, msg |-> "DANGER ZONE"]
    ELSE [ok |-> FALSE, msg |-> "Market closed - Next 0DTE window"]

\* `needle in window_message` for the needles the program looks for
MsgHas(msg, needle) ==
    \/ msg = needle
    \/ /\ needle = "Weekend"
       /\ msg \in {"Weekend (Saturday) - Market opens Monday",
                   "Weekend (Sunday) - Market opens Monday"}

(***************************************************************************)
(* signals/entry_signals.py                                                *)
(***************************************************************************)
\* _calculate_points with the bearish side left signed
calculate_points_mut_signed(ga, it, se, te, sd) ==
    LET gap_points == Get(ga, "total_points", 0)
        internals_points == Get(it, "total_points", 0)
        sectors_points == Get(se, "total_points", 0)
        technicals_points == Get(te, "total_points", 0)
        trend_analysis == Get(sd, "trend_analysis", EmptyDict)
        momentum_shift == Get(sd, "momentum_shift", EmptyDict)
        \* an empty dict is falsy
        trend_part == IF Truthy(trend_analysis)
                        THEN Get(trend_analysis, "ema_points", 0)
                             + Get(trend_analysis, "acceleration_points", 0)
                        ELSE 0
        shift_part == IF Truthy(momentum_shift)
                         /\ Get(momentum_shift, "shift_detected", FALSE)
                        THEN Get(momentum_shift, "shift_points", 0)
                        ELSE 0
        trend_points == trend_part + shift_part
        total_bullish == Max(0, gap_points) + Max(0, internals_points)
                         + Max(0, sectors_points) + Max(0, technicals_points)
                         + Max(0, trend_points)
        total_bearish == Min(0, gap_points) + Min(0, internals_points)
                         + Min(0, sectors_points)
                         + Min(0, technicals_points)
                         + Min(0, trend_points)
    IN  [bullish |-> total_bullish,
         bearish |-> total_bearish,
         breakdown |-> [gap_contribution |-> gap_points,
                        internals_contribution |-> internals_points,
                        sectors_contribution |-> sectors_points,
                        technicals_contribution |-> technicals_points,
                        trend_contribution |-> trend_points,
                        bullish_total |-> total_bullish,
                        bearish_total |-> total_bearish]]

\* EntrySignalGenerator._calculate_points
calculate_points(ga, it, se, te, sd) ==
    LET gap_points == Get(ga, "total_points", 0)
        internals_points == Get(it, "total_points", 0)
        sectors_points == Get(se, "total_points", 0)
        technicals_points == Get(te, "total_points", 0)
        trend_analysis == Get(sd, "trend_analysis", EmptyDict)
        momentum_shift == Get(sd, "momentum_shift", EmptyDict)
        \* an empty dict is falsy
        trend_part == IF Truthy(trend_analysis)
                        THEN Get(trend_analysis, "ema_points", 0)
                             + Get(trend_analysis, "acceleration_points", 0)
                        ELSE 0
        shift_part == IF Truthy(momentum_shift)
                         /\ Get(momentum_shift, "shift_detected", FALSE)
                        THEN Get(momentum_shift, "shift_points", 0)
                        ELSE 0
        trend_points == trend_part + shift_part
        total_bullish == Max(0, gap_points) + Max(0, internals_points)
                         + Max(0, sectors_points) + Max(0, technicals_points)
                         + Max(0, trend_points)
        total_bearish == Abs(Min(0, gap_points)) + Abs(Min(0, internals_points))
                         + Abs(Min(0, sectors_points))
                         + Abs(Min(0, technicals_points))
                         + Abs(Min(0, trend_points))
    IN  [bullish |-> total_bullish,
         bearish |-> total_bearish,
         breakdown |-> [gap_contribution |-> gap_points,
                        internals_contribution |-> internals_points,
                        sectors_contribution |-> sectors_points,
                        technicals_contribution |-> technicals_points,
                        trend_contribution |-> trend_points,
                        bullish_total |-> total_bullish,
                        bearish_total |-> total_bearish]]

\* _determine_signal_strength with the strong threshold compared strictly
determine_signal_strength_mut_strict(bullish_points, bearish_points) ==
    LET net_points == bullish_points - bearish_points
    IN  IF net_points > Get(DECISION_THRESHOLDS, "strong_signal", 700)
          THEN <<"STRONG LONG", "HIGH">>
        ELSE IF net_points >= Get(DECISION_THRESHOLDS, "moderate_signal", 500)
          THEN <<"MODERATE LONG", "MEDIUM">>
        ELSE IF net_points <= -Get(DECISION_THRESHOLDS, "strong_signal", 700)
          THEN <<"STRONG SHORT", "HIGH">>
        ELSE IF net_points <= -Get(DECISION_THRESHOLDS, "moderate_signal", 500)
          THEN <<"MODERATE SHORT", "MEDIUM">>
        ELSE <<"NO TRADE", "LOW">>

\* EntrySignalGenerator._determine_signal_strength
determine_signal_strength(bullish_points, bearish_points) ==
    LET net_points == bullish_points - bearish_points
    IN  IF net_points >= Get(DECISION_THRESHOLDS, "strong_signal", 700)
          THEN <<"STRONG LONG", "HIGH">>
        ELSE IF net_points >= Get(DECISION_THRESHOLDS, "moderate_signal", 500)
          THEN <<"MODERATE LONG", "MEDIUM">>
        ELSE IF net_points <= -Get(DECISION_THRESHOLDS, "strong_signal", 700)
          THEN <<"STRONG SHORT", "HIGH">>
        ELSE IF net_points <= -Get(DECISION_THRESHOLDS, "moderate_signal", 500)
          THEN <<"MODERATE SHORT", "MEDIUM">>
        ELSE <<"NO TRADE", "LOW">>

\* EntrySignalGenerator._get_timing_warning: the warning is modelled by the
\* branch that produced it together with the raw signal it quotes.
get_timing_warning(raw_signal, window_message) ==
    IF MsgHas(window_message, "OPENING VOLATILITY")
      THEN [kind |-> "TIMING WARNING: opening volatility", signal |-> raw_signal]
    ELSE IF MsgHas(window_message, "POST-WINDOW")
      THEN [kind |-> "TIMING WARNING: gap edge diminished", signal |-> raw_signal]
    ELSE IF MsgHas(window_message, "LUNCH DOLDRUMS")
      THEN [kind |-> "TIMING WARNING: low volume", signal |-> raw_signal]
    ELSE IF MsgHas(window_message, "DANGER ZONE")
      THEN [kind |-> "TIMING WARNING: theta burn", signal |-> raw_signal]
    ELSE IF MsgHas(window_message, "Weekend")
      THEN [kind |-> "ANALYSIS ONLY", signal |-> raw_signal]
    ELSE [kind |-> "TIMING WARNING: suboptimal", signal |-> raw_signal]

\* get_final_decision without the window override
get_final_decision_mut_ungated(ga, it, se, te, sd, t) ==
    LET p == calculate_points(ga, it, se, te, sd)
        s == determine_signal_strength(p.bullish, p.bearish)
        w == check_trading_window(t)
    IN  [decision |-> s[1],
         confidence |-> s[2],
         bullish_points |-> p.bullish,
         bearish_points |-> p.bearish,
         decision_breakdown |-> p.breakdown,
         raw_signal |-> s[1],
         trading_window_ok |-> w.ok,
         window_message |-> w.msg,
         timing_warning |-> None]

\* EntrySignalGenerator.get_final_decision; the analyzer results the returned
\* dict echoes are left out
get_final_decision(ga, it, se, te, sd, t) ==
    LET p == calculate_points(ga, it, se, te, sd)
        s == determine_signal_strength(p.bullish, p.bearish)
        w == check_trading_window(t)
        inside == w.ok /\ MsgHas(w.msg, "PRIME 0DTE WINDOW")
    IN  [decision |-> IF inside THEN s[1] ELSE "NO TRADE - OUTSIDE WINDOW",
         confidence |-> s[2],
         bullish_points |-> p.bullish,
         bearish_points |-> p.bearish,
         decision_breakdown |-> p.breakdown,
         raw_signal |-> s[1],
         trading_window_ok |-> w.ok,
         window_message |-> w.msg,
         timing_warning |-> IF inside THEN None
                            ELSE get_timing_warning(s[1], w.msg)]

(***************************************************************************)
(* Upstream feed answers                                                   *)
(*   Tradier get_quote      : raise | none (None) | empty ({}) | ok        *)
(*   Tradier history        : raise | none | nokey | ok with bars          *)
(*   Yahoo get_cached_yahoo_data : raise | empty frame | ok with rows      *)
(***************************************************************************)
QRaise == [kind |-> "raise"]
QNone == [kind |-> "none"]
QEmpty == [kind |-> "empty"]
QOk(last, volume, avgvolume, change_percentage) ==
    [kind |-> "ok", last |-> last, volume |-> volume,
     avgvolume |-> avgvolume, change_percentage |-> change_percentage]

\* `spy_quote and spy_quote.get(field)`: None and {} are falsy, and so is a
\* field that is 0
QuoteHas(q, field) == q.kind = "ok" /\ q[field] # 0

YRaise == [kind |-> "raise"]
YEmpty == [kind |-> "empty"]
YOk(rows) == [kind |-> "ok", rows |-> rows]
Row(o, h, l, c, v) == [Open |-> o, High |-> h, Low |-> l, Close |-> c, Volume |-> v]

\* `not hist.empty`
NotEmpty(y) == y.kind = "ok" /\ Len(y.rows) > 0
Last(seq) == seq[Len(seq)]

THRaise == [kind |-> "raise"]
THNone == [kind |-> "none"]
THNoKey == [kind |-> "nokey"]
THNull == [kind |-> "null"]
THOk(day) == [kind |-> "ok", day |-> day]
\* a history whose `day` is one object, not a list
THOne(bar) == [kind |-> "one", bar |-> bar]
\* `hist_data` after `if isinstance(hist_data, dict): hist_data = [hist_data]`
HistDays(th) ==
    IF th.kind = "one" THEN <<th.bar>>
    ELSE IF th.kind = "ok" THEN th.day
    ELSE <<>>
Bar(o, h, l, c, v) == [open |-> o, high |-> h, low |-> l, close |-> c, volume |-> v]

\* sums over the rows of a frame or the bars of a history
RECURSIVE SumSeq(_)
SumSeq(seq) ==
    IF seq = <<>> THEN 0 ELSE Head(seq) + SumSeq(Tail(seq))

SumOver(seq, F(_)) == SumSeq([i \in 1..Len(seq) |-> F(seq[i])])

(***************************************************************************)
(* utils/data_providers.py                                                 *)
(***************************************************************************)
\* ProxyDataProvider.get_spy_proxy_data
get_spy_proxy_data(t) ==
    LET hour == t.sec \div 3600
    IN  IF hour < 9 \/ hour >= 16
          THEN [current_price |-> 64027, volume |-> 45000, gap_pct |-> -117,
                source |-> "Proxy (Market Closed)"]
          ELSE [current_price |-> 64027 + (hour - 12) * 10, volume |-> 50000,
                gap_pct |-> -117, source |-> "Proxy (Live Estimate)"]

(***************************************************************************)
(* analyzers/gap_analyzer.py                                               *)
(***************************************************************************)
\* the VWAP loop over Tradier bars (lines 102-113)
ValidBar(d) == d.close > 0 /\ d.volume > 0
TradierPV(d) == IF ValidBar(d) THEN d.close * d.volume ELSE 0
TradierVol(d) == IF ValidBar(d) THEN d.volume ELSE 0
TradierPoints(d) == IF ValidBar(d) THEN 1 ELSE 0

\* typical price times volume of a Yahoo row (lines 153-157)
YahooPV(r) == Div(r.High + r.Low + r.Close, 3) * r.Volume
YahooVol(r) == r.Volume

\* (current - vwap) / vwap * 100, in hundredths of a percent
distance_from_vwap(current_price, vwap) == Div((current_price - vwap) * 10000, vwap)

\* GapAnalyzer.get_spy_data_enhanced. `tiers` lists the tiers the run invoked.
get_spy_data_enhanced(tq, th, yh, t) ==
    LET quote_ok == QuoteHas(tq, "last")
        price1 == IF quote_ok THEN tq.last ELSE 0
        source1 == IF quote_ok THEN "Tradier" ELSE "unknown"
        \* the history is asked for only after a usable quote
        hist_ok == quote_ok /\ HistDays(th) # <<>>
        t_volume == IF hist_ok THEN SumOver(HistDays(th), TradierVol) ELSE 0
        t_points == IF hist_ok THEN SumOver(HistDays(th), TradierPoints) ELSE 0
        t_vwap == Div(SumOver(HistDays(th), TradierPV), t_volume)
        y_ok == NotEmpty(yh)
        price2 == IF price1 = 0 THEN Last(yh.rows).Close ELSE price1
        source2 == IF price1 = 0 THEN "Yahoo (Fallback)" ELSE source1
        y_volume == IF y_ok THEN SumOver(yh.rows, YahooVol) ELSE 0
        y_vwap == Div(SumOver(yh.rows, YahooPV), y_volume)
        proxy_data == get_spy_proxy_data(t)
    IN  IF hist_ok /\ t_volume > 0 /\ t_points > 0
          THEN [current_price |-> price1,
                historical |-> None,
                volume_data |-> [current_volume |-> tq.volume,
                                 avg_volume |-> tq.avgvolume],
                vwap_data |-> [vwap |-> t_vwap,
                               distance_pct |-> distance_from_vwap(price1, t_vwap),
                               source |-> "Tradier"],
                source |-> "Tradier",
                tiers |-> <<"Tradier">>]
        ELSE IF y_ok /\ y_volume > 0
          THEN [current_price |-> price2,
                historical |-> yh,
                volume_data |-> [current_volume |-> Last(yh.rows).Volume,
                                 avg_volume |-> Div(y_volume, Len(yh.rows))],
                vwap_data |-> [vwap |-> y_vwap,
                               distance_pct |-> distance_from_vwap(price2, y_vwap),
                               source |-> "Yahoo (Fallback)"],
                source |-> source2,
                tiers |-> <<"Tradier", "Yahoo">>]
        ELSE [current_price |-> proxy_data.current_price,
              historical |-> IF y_ok THEN yh ELSE None,
              volume_data |-> [current_volume |-> proxy_data.volume,
                               avg_volume |-> Div(proxy_data.volume * 9, 10)],
              vwap_data |-> [vwap |-> proxy_data.current_price,
                             distance_pct |-> 0,
                             source |-> "Proxy Estimate"],
              source |-> proxy_data.source,
              tiers |-> <<"Tradier", "Yahoo", "Proxy">>]

\* GapAnalyzer._get_gap_data: the gap in hundredths of a percent
get_gap_data(thd, yhd) ==
    LET days == HistDays(thd)
        n == Len(days)
        t_ok == n >= 2 /\ days[n - 1].close # 0
        m == IF NotEmpty(yhd) THEN Len(yhd.rows) ELSE 0
    IN  IF t_ok
          THEN [gap_pct |-> Div((days[n].open - days[n - 1].close) * 10000,
                                days[n - 1].close),
                tiers |-> <<"Tradier">>]
        ELSE IF m >= 2
          THEN [gap_pct |-> Div((yhd.rows[m].Open - yhd.rows[m - 1].Close) * 10000,
                                yhd.rows[m - 1].Close),
                tiers |-> <<"Tradier", "Yahoo">>]
        ELSE [gap_pct |-> -120, tiers |-> <<"Tradier", "Yahoo", "Proxy">>]

\* _calculate_points_breakdown giving a misaligned gap the full weight
calculate_points_breakdown_mut_fullweight(gap_pct, sd, today_volume, avg_volume) ==
    LET abs_gap == Abs(gap_pct)
        volume_surge_ratio == IF avg_volume > 0
                                THEN Div(today_volume * 100, avg_volume) ELSE 139
        vwap_distance == Get(Get(sd, "vwap_data", EmptyDict), "distance_pct", 0)
        gap_size == IF abs_gap >= 250 THEN 100
                    ELSE IF abs_gap >= 150 THEN 200
                    ELSE IF abs_gap >= 75 THEN 150
                    ELSE IF abs_gap >= 50 THEN 100
                    ELSE 0
        statistical_significance == IF abs_gap >= 150 THEN 50 ELSE 0
        volume_confirmation == IF volume_surge_ratio >= 200 THEN 100
                               ELSE IF volume_surge_ratio >= 150 THEN 50
                               ELSE 0
        vwap_alignment == IF Abs(vwap_distance) > 25 THEN 100
                          ELSE IF Abs(vwap_distance) > 10 THEN 50
                          ELSE 0
        es_alignment == 50
        total_base_points == gap_size + statistical_significance
                             + volume_confirmation + vwap_alignment + es_alignment
        direction_multiplier ==
            IF gap_pct < 0
              THEN -100
              ELSE 100
        final_points ==
            IF gap_pct < 0
              THEN -total_base_points
              ELSE total_base_points
    IN  [gap_size |-> gap_size,
         statistical_significance |-> statistical_significance,
         volume_confirmation |-> volume_confirmation,
         vwap_alignment |-> vwap_alignment,
         es_alignment |-> es_alignment,
         total_base_points |-> total_base_points,
         direction_multiplier |-> direction_multiplier,
         final_points |-> final_points]

\* _calculate_points_breakdown without the fixed futures-alignment term
calculate_points_breakdown_mut_noes(gap_pct, sd, today_volume, avg_volume) ==
    LET abs_gap == Abs(gap_pct)
        volume_surge_ratio == IF avg_volume > 0
                                THEN Div(today_volume * 100, avg_volume) ELSE 139
        vwap_distance == Get(Get(sd, "vwap_data", EmptyDict), "distance_pct", 0)
        gap_size == IF abs_gap >= 250 THEN 100
                    ELSE IF abs_gap >= 150 THEN 200
                    ELSE IF abs_gap >= 75 THEN 150
                    ELSE IF abs_gap >= 50 THEN 100
                    ELSE 0
        statistical_significance == IF abs_gap >= 150 THEN 50 ELSE 0
        volume_confirmation == IF volume_surge_ratio >= 200 THEN 100
                               ELSE IF volume_surge_ratio >= 150 THEN 50
                               ELSE 0
        vwap_alignment == IF Abs(vwap_distance) > 25 THEN 100
                          ELSE IF Abs(vwap_distance) > 10 THEN 50
                          ELSE 0
        es_alignment == 0
        total_base_points == gap_size + statistical_significance
                             + volume_confirmation + vwap_alignment + es_alignment
        direction_multiplier ==
            IF gap_pct < 0
              THEN IF vwap_distance < 0 THEN -100 ELSE -50
              ELSE IF vwap_distance > 0 THEN 100 ELSE 50
        final_points ==
            IF gap_pct < 0
              THEN IF vwap_distance < 0 THEN -total_base_points
                   ELSE Div(-total_base_points * 5, 10)
              ELSE IF vwap_distance > 0 THEN total_base_points
                   ELSE Div(total_base_points * 5, 10)
    IN  [gap_size |-> gap_size,
         statistical_significance |-> statistical_significance,
         volume_confirmation |-> volume_confirmation,
         vwap_alignment |-> vwap_alignment,
         es_alignment |-> es_alignment,
         total_base_points |-> total_base_points,
         direction_multiplier |-> direction_multiplier,
         final_points |-> final_points]

\* GapAnalyzer._calculate_points_breakdown
calculate_points_breakdown(gap_pct, sd, today_volume, avg_volume) ==
    LET abs_gap == Abs(gap_pct)
        volume_surge_ratio == IF avg_volume > 0
                                THEN Div(today_volume * 100, avg_volume) ELSE 139
        vwap_distance == Get(Get(sd, "vwap_data", EmptyDict), "distance_pct", 0)
        gap_size == IF abs_gap >= 250 THEN 100
                    ELSE IF abs_gap >= 150 THEN 200
                    ELSE IF abs_gap >= 75 THEN 150
                    ELSE IF abs_gap >= 50 THEN 100
                    ELSE 0
        statistical_significance == IF abs_gap >= 150 THEN 50 ELSE 0
        volume_confirmation == IF volume_surge_ratio >= 200 THEN 100
                               ELSE IF volume_surge_ratio >= 150 THEN 50
                               ELSE 0
        vwap_alignment == IF Abs(vwap_distance) > 25 THEN 100
                          ELSE IF Abs(vwap_distance) > 10 THEN 50
                          ELSE 0
        es_alignment == 50
        total_base_points == gap_size + statistical_significance
                             + volume_confirmation + vwap_alignment + es_alignment
        direction_multiplier ==
            IF gap_pct < 0
              THEN IF vwap_distance < 0 THEN -100 ELSE -50
              ELSE IF vwap_distance > 0 THEN 100 ELSE 50
        final_points ==
            IF gap_pct < 0
              THEN IF vwap_distance < 0 THEN -total_base_points
                   ELSE Div(-total_base_points * 5, 10)
              ELSE IF vwap_distance > 0 THEN total_base_points
                   ELSE Div(total_base_points * 5, 10)
    IN  [gap_size |-> gap_size,
         statistical_significance |-> statistical_significance,
         volume_confirmation |-> volume_confirmation,
         vwap_alignment |-> vwap_alignment,
         es_alignment |-> es_alignment,
         total_base_points |-> total_base_points,
         direction_multiplier |-> direction_multiplier,
         final_points |-> final_points]

\* _get_gap_category with exclusive lower bounds
get_gap_category_mut_strict(abs_gap) ==
    IF abs_gap > 250 THEN "MONSTER"
    ELSE IF abs_gap > 150 THEN "LARGE"
    ELSE IF abs_gap > 75 THEN "MEDIUM"
    ELSE IF abs_gap > 50 THEN "SMALL"
    ELSE "MINIMAL"

\* GapAnalyzer._get_gap_category
get_gap_category(abs_gap) ==
    IF abs_gap >= 250 THEN "MONSTER"
    ELSE IF abs_gap >= 150 THEN "LARGE"
    ELSE IF abs_gap >= 75 THEN "MEDIUM"
    ELSE IF abs_gap >= 50 THEN "SMALL"
    ELSE "MINIMAL"

\* GapAnalyzer._get_weekend_analysis
get_weekend_analysis(friday_close) ==
    [gap_pct |-> 0,
     gap_size_category |-> "WEEKEND",
     vwap_distance_pct |-> 0,
     total_points |-> 0,
     points_breakdown |-> [gap_size |-> 0, final_points |-> 0],
     data_source |-> "Weekend Mode",
     friday_close |-> friday_close]

\* GapAnalyzer._get_fallback_gap_analysis
get_fallback_gap_analysis ==
    [gap_pct |-> -117,
     gap_size_category |-> "MEDIUM",
     vwap_distance_pct |-> 0,
     total_points |-> -200,
     points_breakdown |-> [gap_size |-> 150, final_points |-> -200],
     data_source |-> "Proxy Fallback"]

\* what an exception leaving a function is modelled as
Raised == [kind |-> "raised"]

\* the try body of GapAnalyzer.calculate_gap_analysis (lines 194-229);
\* f.fault says that a statement of the body raised
gap_analysis_body(f, t) ==
    LET sd == get_spy_data_enhanced(f.tq, f.th, f.yh, t)
        current_price == Get(sd, "current_price", 64027)
        is_weekend == t.wd >= 5
        yesterday_close == Div(current_price * 1005, 1000)
        today_volume == 50000
        avg_volume == 45000
        gap_pct == get_gap_data(f.thd, f.yhd).gap_pct
        points_breakdown == calculate_points_breakdown(gap_pct, sd, today_volume,
                                                       avg_volume)
    IN  IF f.fault THEN Raised
        ELSE IF is_weekend THEN get_weekend_analysis(yesterday_close)
        ELSE [gap_pct |-> gap_pct,
              gap_size_category |-> get_gap_category(Abs(gap_pct)),
              vwap_distance_pct |->
                  Get(Get(sd, "vwap_data", EmptyDict), "distance_pct", 0),
              total_points |-> points_breakdown.final_points,
              points_breakdown |-> points_breakdown,
              data_source |-> Get(sd, "source", "Proxy")]

\* GapAnalyzer.calculate_gap_analysis: `except Exception` answers with the
\* fixed fallback
calculate_gap_analysis(f, t) ==
    LET r == gap_analysis_body(f, t)
    IN  IF r = Raised THEN get_fallback_gap_analysis ELSE r

(***************************************************************************)
(* analyzers/internals_analyzer.py                                         *)
(***************************************************************************)
\* bulk quote answers: None, {} or a dict keyed by symbol
BNone == [kind |-> "none"]
BRaise == [kind |-> "raise"]
BOk(q) == [kind |-> "ok", q |-> q]
BreadthSymbol == [tick |-> "$TICK", trin |-> "$TRIN", nyad |-> "$NYAD"]

\* _get_real_breadth_data_fast calling one resolved symbol REAL
get_real_breadth_data_fast_mut_one(f) ==
    LET bulk == f.bulk
        usable == f.main_thread /\ bulk.kind = "ok" /\ DOMAIN bulk.q # {}
        found == IF usable
                   THEN {k \in DOMAIN BreadthSymbol :
                           /\ BreadthSymbol[k] \in DOMAIN bulk.q
                           /\ ~bulk.q[BreadthSymbol[k]].null}
                   ELSE {}
    IN  [symbols_found |-> found,
         data_quality |-> IF Cardinality(found) >= 1 THEN "REAL" ELSE "FAILED",
         breadth_values |-> [k \in found |-> bulk.q[BreadthSymbol[k]].last]]

\* InternalsAnalyzer._get_real_breadth_data_fast. f.main_thread says whether
\* signal.signal may install the alarm handler; elsewhere it raises ValueError
get_real_breadth_data_fast(f) ==
    LET bulk == f.bulk
        usable == f.main_thread /\ bulk.kind = "ok" /\ DOMAIN bulk.q # {}
        found == IF usable
                   THEN {k \in DOMAIN BreadthSymbol :
                           /\ BreadthSymbol[k] \in DOMAIN bulk.q
                           /\ ~bulk.q[BreadthSymbol[k]].null}
                   ELSE {}
    IN  [symbols_found |-> found,
         data_quality |-> IF Cardinality(found) >= 2 THEN "REAL" ELSE "FAILED",
         breadth_values |-> [k \in found |-> bulk.q[BreadthSymbol[k]].last]]

\* InternalsAnalyzer._analyze_tick
analyze_tick(tick_value) ==
    IF tick_value >= 1000 THEN 200
    ELSE IF tick_value >= 200 THEN 100
    ELSE IF tick_value <= -1000 THEN -200
    ELSE IF tick_value <= -200 THEN -100
    ELSE 0

\* InternalsAnalyzer._analyze_trin (value in hundredths)
analyze_trin(trin_value) ==
    IF trin_value <= 80 THEN 100
    ELSE IF trin_value >= 120 THEN -100
    ELSE 0

\* InternalsAnalyzer._analyze_nyad
analyze_nyad(nyad_value) ==
    IF nyad_value > 1000 THEN 100
    ELSE IF nyad_value < -1000 THEN -100
    ELSE 0

\* InternalsAnalyzer._analyze_vold (value in hundredths)
analyze_vold(vold_value) ==
    IF vold_value > 150 THEN 100
    ELSE IF vold_value < 70 THEN -100
    ELSE 0

\* InternalsAnalyzer._process_real_breadth_data
process_real_breadth_data(real_data) ==
    LET bv == real_data.breadth_values
        has(k) == k \in DOMAIN bv
        tick_points == IF has("tick") THEN analyze_tick(bv["tick"]) ELSE 0
        trin_points == IF has("trin") THEN analyze_trin(bv["trin"]) ELSE 0
        nyad_points == IF has("nyad") THEN analyze_nyad(bv["nyad"]) ELSE 0
        vold_value == IF has("tick") /\ has("trin")
                        THEN IF bv["tick"] > 500 /\ bv["trin"] < 90 THEN 180
                             ELSE IF bv["tick"] < -500 /\ bv["trin"] > 110 THEN 40
                             ELSE 100
                        ELSE 100
        vold_points == analyze_vold(vold_value)
        total_points == tick_points + trin_points + nyad_points + vold_points
    IN  [total_points |-> total_points,
         points_breakdown |-> [tick |-> tick_points, trin |-> trin_points,
                               nyad |-> nyad_points, vold |-> vold_points,
                               total_points |-> total_points],
         data_quality |-> "REAL BREADTH DATA",
         breadth_score |-> total_points]

\* InternalsAnalyzer._get_emergency_fallback
get_emergency_fallback ==
    [total_points |-> -200,
     points_breakdown |-> [tick |-> -50, trin |-> 0, nyad |-> -100, vold |-> -50,
                           total_points |-> -200],
     data_quality |-> "EMERGENCY FALLBACK",
     breadth_score |-> -200]

\* one ETF of the emergency proxy loop: did it yield data, and is it advancing
ProxyEtfOk(f, y) == f.main_thread /\ NotEmpty(y) /\ y.rows[1].Open # 0
ProxyEtfAdvancing(y) == Last(y.rows).Close - y.rows[1].Open > 0

\* _get_emergency_proxy_internals with the share of advancing ETFs as its
\* advance measure
get_emergency_proxy_internals_mut_share(f) ==
    LET got == {sym \in DOMAIN f.etf : ProxyEtfOk(f, f.etf[sym])}
        advancing_count == Cardinality({sym \in got : ProxyEtfAdvancing(f.etf[sym])})
        total_count == Cardinality(got)
        advance_pct == Div(advancing_count * 100, total_count)
        proxy_tick == advance_pct * 10
        proxy_trin == IF advance_pct > -90 THEN Div(10000, 100 + advance_pct) ELSE 200
        proxy_nyad == advance_pct * 20
        proxy_vold == 100 + advance_pct
        tick_points == analyze_tick(proxy_tick)
        trin_points == analyze_trin(proxy_trin)
        nyad_points == analyze_nyad(proxy_nyad)
        vold_points == analyze_vold(proxy_vold)
        total_points == tick_points + trin_points + nyad_points + vold_points
    IN  IF total_count >= 1
          THEN [total_points |-> total_points,
                points_breakdown |-> [tick |-> tick_points, trin |-> trin_points,
                                      nyad |-> nyad_points, vold |-> vold_points,
                                      total_points |-> total_points],
                data_quality |-> "EMERGENCY PROXY",
                breadth_score |-> total_points]
          ELSE get_emergency_fallback

\* InternalsAnalyzer._get_emergency_proxy_internals
get_emergency_proxy_internals(f) ==
    LET got == {sym \in DOMAIN f.etf : ProxyEtfOk(f, f.etf[sym])}
        advancing_count == Cardinality({sym \in got : ProxyEtfAdvancing(f.etf[sym])})
        total_count == Cardinality(got)
        \* (advancing_count / total_count - 0.5) * 2, in hundredths
        advance_pct == Div(advancing_count * 200, total_count) - 100
        proxy_tick == advance_pct * 10
        proxy_trin == IF advance_pct > -90 THEN Div(10000, 100 + advance_pct) ELSE 200
        proxy_nyad == advance_pct * 20
        proxy_vold == 100 + advance_pct
        tick_points == analyze_tick(proxy_tick)
        trin_points == analyze_trin(proxy_trin)
        nyad_points == analyze_nyad(proxy_nyad)
        vold_points == analyze_vold(proxy_vold)
        total_points == tick_points + trin_points + nyad_points + vold_points
    IN  IF total_count >= 1
          THEN [total_points |-> total_points,
                points_breakdown |-> [tick |-> tick_points, trin |-> trin_points,
                                      nyad |-> nyad_points, vold |-> vold_points,
                                      total_points |-> total_points],
                data_quality |-> "EMERGENCY PROXY",
                breadth_score |-> total_points]
          ELSE get_emergency_fallback

\* the try body of InternalsAnalyzer.analyze_market_internals (lines 39-48)
market_internals_body(f) ==
    LET real_breadth_data == get_real_breadth_data_fast(f)
    IN  IF f.fault THEN Raised
        ELSE IF real_breadth_data.data_quality = "REAL"
          THEN process_real_breadth_data(real_breadth_data)
        ELSE get_emergency_proxy_internals(f)

\* InternalsAnalyzer.analyze_market_internals
analyze_market_internals(f) ==
    LET r == market_internals_body(f)
    IN  IF r = Raised THEN get_emergency_fallback ELSE r

(***************************************************************************)
(* analyzers/sector_analyzer.py                                            *)
(***************************************************************************)
SECTOR_SYMBOLS == <<"XLK", "XLF", "XLV", "XLY", "XLI", "XLP", "XLE", "XLU", "XLRE">>
SymbolSet == {SECTOR_SYMBOLS[i] : i \in 1..Len(SECTOR_SYMBOLS)}
\* weights in hundredths
SECTOR_WEIGHTS ==
    [XLK |-> 25, XLF |-> 15, XLV |-> 15, XLY |-> 12, XLI |-> 10,
     XLP |-> 8, XLE |-> 5, XLU |-> 5, XLRE |-> 5]

\* ProxyDataProvider.get_sector_proxy_data: change_pct in hundredths
get_sector_proxy_data ==
    [XLK |-> -101, XLF |-> -75, XLV |-> 10, XLY |-> -75, XLI |-> -96,
     XLP |-> -17, XLE |-> 15, XLU |-> -34, XLRE |-> -171]

\* a bulk sector quote; `bad` says that one of its fields does not convert
\* with float()
SectorQuote(chg, vol, avg) ==
    [change_percentage |-> chg, volume |-> vol, avgvolume |-> avg, bad |-> FALSE]
BadSectorQuote ==
    [change_percentage |-> 0, volume |-> 0, avgvolume |-> 0, bad |-> TRUE]

\* position of a symbol in SECTOR_SYMBOLS
SymbolIndex(sym) == CHOOSE i \in 1..Len(SECTOR_SYMBOLS) : SECTOR_SYMBOLS[i] = sym

\* the symbols the Tradier loop stored before it ended or raised (lines 106-117)
TradierSectors(bulk) ==
    IF bulk.kind # "ok" \/ DOMAIN bulk.q = {} THEN {}
    ELSE LET bad == {SymbolIndex(x) : x \in {y \in DOMAIN bulk.q : bulk.q[y].bad}}
         IN  {x \in DOMAIN bulk.q \cap SymbolSet :
                \A b \in bad : SymbolIndex(x) < b}

\* did the Tradier loop run to its end
TradierSectorsComplete(bulk) ==
    /\ bulk.kind = "ok"
    /\ \A y \in DOMAIN bulk.q : ~bulk.q[y].bad
    /\ TradierSectors(bulk) = SymbolSet

YahooSectorOk(y) == NotEmpty(y)

\* SectorAnalyzer._get_sector_data
get_sector_data(bulk, ys) ==
    LET from_tradier == TradierSectors(bulk)
        from_yahoo == {x \in SymbolSet \ from_tradier : YahooSectorOk(ys[x])}
        entry(x) ==
            IF x \in from_tradier
              THEN [change_pct |-> bulk.q[x].change_percentage,
                    volume |-> bulk.q[x].volume,
                    avg_volume |-> bulk.q[x].avgvolume,
                    source |-> "Tradier"]
            ELSE IF x \in from_yahoo
              THEN [change_pct |->
                        Div((Last(ys[x].rows).Close - ys[x].rows[1].Open) * 10000,
                            ys[x].rows[1].Open),
                    volume |-> Last(ys[x].rows).Volume,
                    avg_volume |-> Div(SumOver(ys[x].rows, YahooVol), Len(ys[x].rows)),
                    source |-> "Yahoo (Fallback)"]
            ELSE [change_pct |-> get_sector_proxy_data[x],
                  volume |-> 1000,
                  avg_volume |-> 1000,
                  source |-> "Proxy Estimate"]
    IN  [data |-> [x \in SymbolSet |-> entry(x)],
         tiers |-> IF TradierSectorsComplete(bulk)
                     THEN <<"Tradier">>
                     ELSE <<"Tradier", "Yahoo", "Proxy">>]

\* SectorAnalyzer._get_spy_change
get_spy_change(tq, yh) ==
    IF QuoteHas(tq, "change_percentage")
      THEN [spy_change |-> tq.change_percentage, source |-> "Tradier",
            tiers |-> <<"Tradier">>]
    ELSE IF NotEmpty(yh)
      THEN [spy_change |-> Div((Last(yh.rows).Close - yh.rows[1].Open) * 10000,
                               yh.rows[1].Open),
            source |-> "Yahoo (Fallback)",
            tiers |-> <<"Tradier", "Yahoo">>]
    ELSE [spy_change |-> -75, source |-> "Proxy Estimate",
          tiers |-> <<"Tradier", "Yahoo", "Proxy">>]

\* _calculate_strength_score giving a strong leader 3 points
calculate_strength_score_mut_three(relative_strength, volume_ratio) ==
    IF relative_strength > 50 /\ volume_ratio > 120 THEN 3
    ELSE IF relative_strength > 20 THEN 1
    ELSE IF relative_strength < -50 /\ volume_ratio > 120 THEN -2
    ELSE IF relative_strength < -20 THEN -1
    ELSE 0

\* SectorAnalyzer._calculate_strength_score
calculate_strength_score(relative_strength, volume_ratio) ==
    IF relative_strength > 50 /\ volume_ratio > 120 THEN 2
    ELSE IF relative_strength > 20 THEN 1
    ELSE IF relative_strength < -50 /\ volume_ratio > 120 THEN -2
    ELSE IF relative_strength < -20 THEN -1
    ELSE 0

\* SectorAnalyzer._determine_rotation
determine_rotation(leadership_score) ==
    IF leadership_score >= 2 THEN "RISK ON"
    ELSE IF leadership_score <= -2 THEN "RISK OFF"
    ELSE "NEUTRAL"

\* SectorAnalyzer._get_fallback_sector_analysis
get_fallback_sector_analysis ==
    [error |-> "Sector analysis error",
     total_points |-> 0,
     leadership_score |-> 0,
     rotation_signal |-> "NEUTRAL",
     points_breakdown |-> [total_weighted_points |-> 0]]

\* the try body of SectorAnalyzer.analyze_sectors (lines 19-92)
analyze_sectors_body(f) ==
    LET sector_data == get_sector_data(f.sbulk, f.ys).data
        spy == get_spy_change(f.tq, f.yh)
        volume_ratio(x) == IF sector_data[x].avg_volume > 0
                             THEN Div(sector_data[x].volume * 100,
                                      sector_data[x].avg_volume)
                             ELSE 100
        relative_strength(x) == sector_data[x].change_pct - spy.spy_change
        strength_score(x) == calculate_strength_score(relative_strength(x),
                                                      volume_ratio(x))
        weighted_score(x) == strength_score(x) * SECTOR_WEIGHTS[x]
        total_weighted_score ==
            SumSeq([i \in 1..Len(SECTOR_SYMBOLS) |-> weighted_score(SECTOR_SYMBOLS[i])])
        strong_sectors == Cardinality({x \in SymbolSet : strength_score(x) >= 2})
        weak_sectors == Cardinality({x \in SymbolSet : strength_score(x) <= -2})
        leadership_score == strong_sectors - weak_sectors
    IN  IF f.fault THEN Raised
        ELSE [sectors |-> [x \in SymbolSet |->
                             [change_pct |-> sector_data[x].change_pct,
                              relative_strength |-> relative_strength(x),
                              volume_ratio |-> volume_ratio(x),
                              strength_score |-> strength_score(x),
                              weight |-> SECTOR_WEIGHTS[x],
                              source |-> sector_data[x].source]],
              total_points |-> total_weighted_score,
              leadership_score |-> leadership_score,
              rotation_signal |-> determine_rotation(leadership_score),
              strong_sectors |-> strong_sectors,
              weak_sectors |-> weak_sectors,
              spy_source |-> spy.source,
              points_breakdown |->
                  [individual_scores |-> [x \in SymbolSet |->
                                            [strength_score |-> strength_score(x),
                                             weight |-> SECTOR_WEIGHTS[x],
                                             weighted_score |-> weighted_score(x)]],
                   total_weighted_points |-> total_weighted_score]]

\* SectorAnalyzer.analyze_sectors
analyze_sectors(f) ==
    LET r == analyze_sectors_body(f)
    IN  IF r = Raised THEN get_fallback_sector_analysis ELSE r

(***************************************************************************)
(* analyzers/technical_analyzer.py                                         *)
(***************************************************************************)
\* TechnicalAnalyzer._calculate_vwap_tradier: None, or the VWAP record whose
\* distance_pct is left at 0.0
calculate_vwap_tradier(th) ==
    LET days == HistDays(th)
        total_volume == SumOver(days, TradierVol)
    IN  IF total_volume > 0
          THEN [vwap |-> Div(SumOver(days, TradierPV), total_volume),
                distance_pct |-> 0,
                source |-> "Tradier"]
          ELSE None

\* TechnicalAnalyzer._get_spy_technical_data
get_spy_technical_data(tq, th, yh) ==
    LET quote_ok == QuoteHas(tq, "last")
        price1 == IF quote_ok THEN tq.last ELSE 0
        source1 == IF quote_ok THEN "Tradier" ELSE "unknown"
        t_vwap == IF quote_ok THEN calculate_vwap_tradier(th) ELSE None
        y_ok == NotEmpty(yh)
        price2 == IF price1 = 0 THEN Last(yh.rows).Close ELSE price1
        source2 == IF price1 = 0 THEN "Yahoo (Fallback)" ELSE source1
        y_volume == IF y_ok THEN SumOver(yh.rows, YahooVol) ELSE 0
        y_vwap == Div(SumOver(yh.rows, YahooPV), y_volume)
    IN  IF t_vwap # None
          THEN [current_price |-> price1,
                volume_data |-> [current_volume |-> tq.volume,
                                 avg_volume |-> tq.avgvolume],
                vwap_data |-> t_vwap,
                source |-> "Tradier",
                tiers |-> <<"Tradier">>]
        ELSE IF y_ok /\ y_volume > 0
          THEN [current_price |-> price2,
                volume_data |-> [current_volume |-> Last(yh.rows).Volume,
                                 avg_volume |-> Div(y_volume, Len(yh.rows))],
                vwap_data |-> [vwap |-> y_vwap,
                               distance_pct |-> distance_from_vwap(price2, y_vwap),
                               source |-> "Yahoo (Fallback)"],
                source |-> source2,
                tiers |-> <<"Tradier", "Yahoo">>]
        ELSE [current_price |-> 64027,
              volume_data |-> [current_volume |-> 50000, avg_volume |-> 45000],
              vwap_data |-> [vwap |-> 64027, distance_pct |-> 0, source |-> "Proxy"],
              source |-> "Proxy Fallback",
              tiers |-> <<"Tradier", "Yahoo", "Proxy">>]

\* TechnicalAnalyzer._get_yesterday_levels; `native` says that the levels are
\* Python floats (Tradier), for which a division by zero raises
get_yesterday_levels(thy, yh2, current_price) ==
    IF thy.kind = "one"
      THEN [high |-> thy.bar.high, low |-> thy.bar.low, close |-> thy.bar.close,
            native |-> TRUE]
    ELSE IF NotEmpty(yh2) /\ Len(yh2.rows) >= 2
      THEN LET r == yh2.rows[Len(yh2.rows) - 1]
           IN  [high |-> r.High, low |-> r.Low, close |-> r.Close, native |-> FALSE]
    ELSE [high |-> Div(current_price * 1015, 1000),
          low |-> Div(current_price * 985, 1000),
          close |-> Div(current_price * 1005, 1000),
          native |-> TRUE]

\* TechnicalAnalyzer._calculate_volume_confirmation, in hundredths
calculate_volume_confirmation(volume_data) ==
    LET current_volume == Get(volume_data, "current_volume", 0)
        avg_volume == Get(volume_data, "avg_volume", 1)
    IN  IF avg_volume > 0 THEN Div(current_volume * 100, avg_volume) ELSE 100

\* TechnicalAnalyzer._calculate_vwap_points
calculate_vwap_points(vwap_distance_pct) ==
    IF Abs(vwap_distance_pct) > 30
      THEN IF vwap_distance_pct > 0 THEN 200 ELSE -200
    ELSE IF Abs(vwap_distance_pct) > 15
      THEN IF vwap_distance_pct > 0 THEN 100 ELSE -100
    ELSE IF Abs(vwap_distance_pct) > 5
      THEN IF vwap_distance_pct > 0 THEN 50 ELSE -50
    ELSE 0

\* TechnicalAnalyzer._calculate_sr_points
calculate_sr_points(current_price, yesterday_levels) ==
    IF current_price > yesterday_levels.high THEN 100
    ELSE IF current_price < yesterday_levels.low THEN -100
    ELSE 0

\* TechnicalAnalyzer._calculate_volume_points
calculate_volume_points(volume_confirmation) ==
    IF volume_confirmation > 150 THEN 50
    ELSE IF volume_confirmation < 80 THEN -50
    ELSE 0

\* TechnicalAnalyzer._calculate_technicals_breakdown
calculate_technicals_breakdown(vwap_distance_pct, yesterday_levels, current_price, volume_confirmation) ==
    LET vwap_points == calculate_vwap_points(vwap_distance_pct)
        sr_points == calculate_sr_points(current_price, yesterday_levels)
        volume_points == calculate_volume_points(volume_confirmation)
    IN  [vwap |-> vwap_points,
         support_resistance |-> sr_points,
         volume |-> volume_points,
         total_points |-> vwap_points + sr_points + volume_points]

\* TechnicalAnalyzer._get_fallback_technicals
get_fallback_technicals ==
    [total_points |-> -100,
     points_breakdown |-> [vwap |-> 0, support_resistance |-> -50, volume |-> -50,
                           total_points |-> -100],
     vwap_analysis |-> [current_price |-> 64027, vwap |-> 64027, distance_pct |-> 0],
     data_source |-> "Proxy Fallback"]

\* the try body of TechnicalAnalyzer.analyze_technicals (lines 18-65)
analyze_technicals_body(f) ==
    LET sd == get_spy_technical_data(f.tq, f.th, f.yh)
        current_price == sd.current_price
        vwap_data == Get(sd, "vwap_data", EmptyDict)
        vwap == Get(vwap_data, "vwap", current_price)
        vwap_distance_pct == Get(vwap_data, "distance_pct", 0)
        data_source == sd.source
        yesterday_levels == get_yesterday_levels(f.thy, f.yh2, current_price)
        volume_confirmation ==
            calculate_volume_confirmation(Get(sd, "volume_data", EmptyDict))
        technicals_breakdown ==
            calculate_technicals_breakdown(vwap_distance_pct, yesterday_levels,
                                           current_price, volume_confirmation)
        \* current_vs_yesterday_high / _low divide by the levels (lines 55-56)
        zero_division == /\ yesterday_levels.native
                         /\ (yesterday_levels.high = 0 \/ yesterday_levels.low = 0)
    IN  IF f.fault \/ zero_division THEN Raised
        ELSE [total_points |-> technicals_breakdown.total_points,
              vwap_analysis |-> [current_price |-> current_price,
                                 vwap |-> vwap,
                                 distance_pct |-> vwap_distance_pct,
                                 source |-> data_source],
              data_source |-> data_source,
              points_breakdown |-> technicals_breakdown]

\* analyze_technicals without its `except Exception`
analyze_technicals_mut_propagate(f) == analyze_technicals_body(f)

\* TechnicalAnalyzer.analyze_technicals
analyze_technicals(f) ==
    LET r == analyze_technicals_body(f)
    IN  IF r = Raised THEN get_fallback_technicals ELSE r

(***************************************************************************)
(* analyzers/trend_analyzer.py                                             *)
(***************************************************************************)
MOMENTUM_THRESHOLDS ==
    [strong_divergence |-> 30, moderate_divergence |-> 20,
     strong_volume |-> 130, moderate_volume |-> 110]

\* TrendAnalyzer.detect_momentum_shifts over a frame (None, empty or rows)
detect_momentum_shifts(hist_data) ==
    IF hist_data = None \/ ~NotEmpty(hist_data) \/ Len(hist_data.rows) < 10
      THEN [shift_detected |-> FALSE, shift_points |-> 0]
    ELSE
    LET n == Len(hist_data.rows)
        recent == SubSeq(hist_data.rows, n - 9, n)
        momentum_5min == Div((recent[10].Close - recent[6].Close) * 10000,
                             recent[6].Close)
        momentum_10min == Div((recent[10].Close - recent[1].Close) * 10000,
                              recent[1].Close)
        recent_vol == SumOver(SubSeq(recent, 6, 10), YahooVol)
        earlier_vol == SumOver(SubSeq(recent, 1, 5), YahooVol)
        volume_acceleration == IF earlier_vol > 0
                                 THEN Div(recent_vol * 100, earlier_vol) ELSE 100
        momentum_divergence == Abs(momentum_5min - momentum_10min)
    IN  IF /\ momentum_divergence > MOMENTUM_THRESHOLDS.strong_divergence
           /\ volume_acceleration > MOMENTUM_THRESHOLDS.strong_volume
          THEN [shift_detected |-> TRUE,
                shift_points |-> IF momentum_5min > momentum_10min THEN 200 ELSE -200]
        ELSE IF /\ momentum_divergence > MOMENTUM_THRESHOLDS.moderate_divergence
                /\ volume_acceleration > MOMENTUM_THRESHOLDS.moderate_volume
          THEN [shift_detected |-> TRUE,
                shift_points |-> IF momentum_5min > momentum_10min THEN 100 ELSE -100]
        ELSE [shift_detected |-> FALSE, shift_points |-> 0]

(***************************************************************************)
(* main.py                                                                 *)
(***************************************************************************)
\* get_trading_window_status over the server's local time of day (seconds);
\* breadth_weight in hundredths
get_trading_window_status(lt) ==
    IF HMS(9, 45, 0) <= lt /\ lt <= HMS(10, 30, 0)
      THEN [status |-> "OPEN - CAUTION", reliability |-> "LOW", breadth_weight |-> 30]
    ELSE IF HMS(10, 30, 0) <= lt /\ lt <= HMS(11, 0, 0)
      THEN [status |-> "OPTIMAL WINDOW", reliability |-> "HIGH", breadth_weight |-> 100]
    ELSE IF HMS(11, 0, 0) <= lt /\ lt <= HMS(11, 30, 0)
      THEN [status |-> "POST-OPTIMAL", reliability |-> "MEDIUM", breadth_weight |-> 80]
    ELSE IF HMS(13, 30, 0) <= lt /\ lt <= HMS(14, 0, 0)
      THEN [status |-> "PIVOT WATCH", reliability |-> "MEDIUM", breadth_weight |-> 70]
    ELSE IF HMS(14, 30, 0) <= lt /\ lt <= HMS(16, 0, 0)
      THEN [status |-> "DANGER ZONE", reliability |-> "LOW", breadth_weight |-> 50]
    ELSE IF HMS(9, 30, 0) <= lt /\ lt <= HMS(9, 45, 0)
      THEN [status |-> "OPENING BELL", reliability |-> "LOW", breadth_weight |-> 20]
    ELSE IF lt >= HMS(16, 0, 0) \/ lt <= HMS(9, 30, 0)
      THEN [status |-> "MARKET CLOSED", reliability |-> "ANALYSIS ONLY",
            breadth_weight |-> 100]
    ELSE [status |-> "LUNCH HOURS", reliability |-> "LOW", breadth_weight |-> 60]

\* the weighting applied to total_points as well
apply_breadth_weight_mut_total(it, wi) ==
    IF "breadth_score" \in DOMAIN it
      THEN [k \in DOMAIN it \cup {"original_breadth_score", "breadth_reliability"} |->
              IF k = "original_breadth_score" THEN it.breadth_score
              ELSE IF k \in {"breadth_score", "total_points"} THEN Div(it[k] * wi.breadth_weight, 100)
              ELSE IF k = "breadth_reliability" THEN wi.reliability
              ELSE it[k]]
      ELSE it

\* get_market_analysis, lines 600-604: only breadth_score is weighted
apply_breadth_weight(it, wi) ==
    IF "breadth_score" \in DOMAIN it
      THEN [k \in DOMAIN it \cup {"original_breadth_score", "breadth_reliability"} |->
              IF k = "original_breadth_score" THEN it.breadth_score
              ELSE IF k = "breadth_score" THEN Div(it.breadth_score * wi.breadth_weight, 100)
              ELSE IF k = "breadth_reliability" THEN wi.reliability
              ELSE it[k]]
      ELSE it

(***************************************************************************)
(* signals/exit_signals.py                                                 *)
(***************************************************************************)
HasLONG(d) == d \in {"STRONG LONG", "MODERATE LONG"}
HasSHORT(d) == d \in {"STRONG SHORT", "MODERATE SHORT"}

\* ExitSignalManager._get_current_spy_price: (price, source) and the tiers
\* invoked
get_current_spy_price(tq, yh) ==
    IF QuoteHas(tq, "last")
      THEN [price |-> tq.last, source |-> "Tradier", calls |-> <<"Tradier">>]
    ELSE IF NotEmpty(yh)
      THEN [price |-> Last(yh.rows).Close, source |-> "Yahoo (Fallback)",
            calls |-> <<"Tradier", "Yahoo">>]
    ELSE [price |-> 64027, source |-> "Static Fallback",
          calls |-> <<"Tradier", "Yahoo", "Proxy">>]

\* ExitSignalManager.get_current_option_price: the chain answer is modelled by
\* the contract matching strike and type (or none)
get_current_option_price(chain) ==
    IF chain.kind # "ok" THEN None
    ELSE IF chain.bid > 0 /\ chain.ask > 0
      THEN [kind |-> "price", value |-> Div(chain.bid + chain.ask, 2)]
    ELSE IF chain.last # 0
      THEN [kind |-> "price", value |-> chain.last]
    ELSE None

\* ExitSignalManager._estimate_option_value
estimate_option_value(entry_price, entry_decision, entry_time, targets, f, t) ==
    IF ~entry_time.aware
      \* aware minus naive datetime raises TypeError: the bare except answers
      THEN [price |-> Div(entry_price * 50, 100), source |-> "Conservative Estimate"]
    ELSE
    LET spy_price == get_current_spy_price(f.tq, f.yh).price
        time_in_trade == Div((t.sec - entry_time.sec) * 100, 3600)
        time_decay_factor == Max(10, 100 - Div(time_in_trade * 15, 100))
        upside_target == Get(targets, "upside_target", Div(spy_price * 1005, 1000))
        downside_target == Get(targets, "downside_target", Div(spy_price * 995, 1000))
        intrinsic_multiplier ==
            IF HasLONG(entry_decision)
              THEN IF spy_price >= upside_target THEN 250
                   ELSE IF 10 * spy_price >= upside_target * 5 THEN 120
                   ELSE 60
              ELSE IF spy_price <= downside_target THEN 250
                   ELSE IF 10 * spy_price <= downside_target * 15 THEN 120
                   ELSE 60
        estimated_value == Div(entry_price * intrinsic_multiplier * time_decay_factor, 10000)
    IN  [price |-> Max(1, estimated_value), source |-> "Estimated"]

\* get_exit_signals, up to and including the P&L (lines 60-116)
exit_valuation(pos, f, t) ==
    LET td == pos.trade_details
        trade_type == IF td # None THEN Get(td, "trade_type", "OPTIONS") ELSE "OPTIONS"
        strike == IF td # None THEN Get(td, "strike", 0) ELSE 0
        spot == get_current_spy_price(f.tq, f.yh)
        opt == get_current_option_price(f.chain)
        est == estimate_option_value(pos.entry_price, pos.entry_decision,
                                     pos.entry_time, pos.targets, f, t)
        val == IF trade_type = "STOCK"
                 THEN [price |-> spot.price, source |-> spot.source,
                       method |-> "Stock Price Comparison"]
               ELSE IF strike # 0 /\ opt # None /\ opt.value # 0
                 THEN [price |-> opt.value, source |-> "Tradier Options",
                       method |-> "Live Options Data"]
               ELSE [price |-> est.price, source |-> est.source,
                     method |-> "Estimated Options Value"]
        pnl_pct == IF val.price > 0
                     THEN Div((val.price - pos.entry_price) * 10000, pos.entry_price)
                     ELSE -10000
    IN  [primary_signal |-> "HOLD",
         urgency |-> "LOW",
         reasons |-> <<>>,
         profit_loss_pct |-> pnl_pct,
         current_price |-> val.price,
         entry_price |-> pos.entry_price,
         time_warnings |-> <<>>,
         should_exit |-> FALSE,
         exit_score |-> 0,
         price_source |-> val.source,
         calculation_method |-> val.method]

\* seconds left to 16:00 of the same day (minutes_to_close * 60)
seconds_to_close(t) == market_close - t.sec

\* ExitSignalManager._analyze_time_exits
analyze_time_exits(es, secs) ==
    IF secs <= 30 * 60
      THEN [es EXCEPT !.exit_score = @ + 8,
                      !.primary_signal = "IMMEDIATE EXIT",
                      !.urgency = "CRITICAL",
                      !.time_warnings = Append(@, "FINAL 30 MINUTES")]
    ELSE IF secs <= 60 * 60
      THEN [es EXCEPT !.exit_score = @ + 5,
                      !.primary_signal = "STRONG EXIT",
                      !.urgency = "HIGH",
                      !.time_warnings = Append(@, "Final hour")]
    ELSE IF secs <= 90 * 60
      THEN [es EXCEPT !.exit_score = @ + 3,
                      !.time_warnings = Append(@, "90 minutes left")]
    ELSE es

\* ExitSignalManager._analyze_profit_exits
analyze_profit_exits(es, pnl_pct) ==
    IF pnl_pct >= 10000
      THEN [es EXCEPT !.exit_score = @ + 6, !.reasons = Append(@, "MASSIVE WIN")]
    ELSE IF pnl_pct >= 5000
      THEN [es EXCEPT !.exit_score = @ + 4, !.reasons = Append(@, "STRONG PROFIT")]
    ELSE IF pnl_pct >= 2500
      THEN [es EXCEPT !.exit_score = @ + 2, !.reasons = Append(@, "Good profit")]
    ELSE es

\* ExitSignalManager._analyze_stop_loss_exits
analyze_stop_loss_exits(es, pnl_pct) ==
    IF pnl_pct <= -7000
      THEN [es EXCEPT !.exit_score = @ + 8,
                      !.primary_signal = "IMMEDIATE EXIT",
                      !.urgency = "CRITICAL",
                      !.reasons = Append(@, "MAJOR STOP LOSS")]
    ELSE IF pnl_pct <= -5000
      THEN [es EXCEPT !.exit_score = @ + 6,
                      !.primary_signal = "STRONG EXIT",
                      !.urgency = "HIGH",
                      !.reasons = Append(@, "STOP LOSS HIT")]
    ELSE IF pnl_pct <= -3000
      THEN [es EXCEPT !.exit_score = @ + 4,
                      !.reasons = Append(@, "Significant loss")]
    ELSE es

\* the two reads of _analyze_target_exits done with setdefault, which stores
\* the default under a missing key
targets_after_get_mut_setdefault(targets, entry_price) ==
    [k \in DOMAIN targets \cup {"upside_target", "downside_target"} |->
        IF k \in DOMAIN targets THEN targets[k]
        ELSE IF k = "upside_target" THEN Div(entry_price * 101, 100)
        ELSE Div(entry_price * 99, 100)]

\* the targets dict after the two targets.get(key, default) reads of
\* _analyze_target_exits: dict.get stores nothing
targets_after_get(targets, entry_price) ==
    targets

\* _analyze_target_exits comparing only against a target that is set
analyze_target_exits_mut_guarded(es, entry_decision, targets, f) ==
    LET upside_target == Get(targets, "upside_target", Div(es.entry_price * 101, 100))
        downside_target == Get(targets, "downside_target", Div(es.entry_price * 99, 100))
        spy_price == get_current_spy_price(f.tq, f.yh).price
    IN  IF HasLONG(entry_decision) /\ upside_target # 0 /\ spy_price >= upside_target
          THEN [es EXCEPT !.exit_score = @ + 5,
                          !.reasons = Append(@, "SPY TARGET HIT >=")]
        ELSE IF HasSHORT(entry_decision) /\ spy_price <= downside_target
          THEN [es EXCEPT !.exit_score = @ + 5,
                          !.reasons = Append(@, "SPY TARGET HIT <=")]
        ELSE es

\* ExitSignalManager._analyze_target_exits
analyze_target_exits(es, entry_decision, targets, f) ==
    LET upside_target == Get(targets, "upside_target", Div(es.entry_price * 101, 100))
        downside_target == Get(targets, "downside_target", Div(es.entry_price * 99, 100))
        spy_price == get_current_spy_price(f.tq, f.yh).price
    IN  IF HasLONG(entry_decision) /\ spy_price >= upside_target
          THEN [es EXCEPT !.exit_score = @ + 5,
                          !.reasons = Append(@, "SPY TARGET HIT >=")]
        ELSE IF HasSHORT(entry_decision) /\ spy_price <= downside_target
          THEN [es EXCEPT !.exit_score = @ + 5,
                          !.reasons = Append(@, "SPY TARGET HIT <=")]
        ELSE es

\* _make_final_exit_decision leaving the signal of the >= 8 branch as it found it
make_final_exit_decision_mut_keep(es) ==
    IF es.exit_score >= 8
      THEN [es EXCEPT !.should_exit = TRUE,
                      !.exit_score = Min(@, 10)]
    ELSE IF es.exit_score >= 5
      THEN [es EXCEPT !.should_exit = TRUE,
                      !.primary_signal = "STRONG EXIT",
                      !.urgency = "HIGH"]
    ELSE IF es.exit_score >= 3
      THEN [es EXCEPT !.primary_signal = "CONSIDER EXIT",
                      !.urgency = "MEDIUM"]
    ELSE es

\* _make_final_exit_decision without the min(score, 10)
make_final_exit_decision_mut_nocap(es) ==
    IF es.exit_score >= 8
      THEN [es EXCEPT !.should_exit = TRUE,
                      !.primary_signal = "IMMEDIATE EXIT",
                      !.urgency = "CRITICAL"]
    ELSE IF es.exit_score >= 5
      THEN [es EXCEPT !.should_exit = TRUE,
                      !.primary_signal = "STRONG EXIT",
                      !.urgency = "HIGH"]
    ELSE IF es.exit_score >= 3
      THEN [es EXCEPT !.primary_signal = "CONSIDER EXIT",
                      !.urgency = "MEDIUM"]
    ELSE es

\* ExitSignalManager._make_final_exit_decision
make_final_exit_decision(es) ==
    IF es.exit_score >= 8
      THEN [es EXCEPT !.should_exit = TRUE,
                      !.primary_signal = "IMMEDIATE EXIT",
                      !.urgency = "CRITICAL",
                      !.exit_score = Min(@, 10)]
    ELSE IF es.exit_score >= 5
      THEN [es EXCEPT !.should_exit = TRUE,
                      !.primary_signal = "STRONG EXIT",
                      !.urgency = "HIGH"]
    ELSE IF es.exit_score >= 3
      THEN [es EXCEPT !.primary_signal = "CONSIDER EXIT",
                      !.urgency = "MEDIUM"]
    ELSE es

(***************************************************************************)
(* api/yahoo_client.py                                                     *)
(*   time.time() and the sleeps are in tenths of a second, backoff_factor  *)
(*   in hundredths                                                         *)
(***************************************************************************)
min_interval == 30
max_requests_per_hour == 50
hour == 36000
backoff_cap == 1000
max_retries == 3
base_delay == 20

\* ImprovedYahooRateLimiter.__init__ at the time the module is imported
ImprovedYahooRateLimiter(t) ==
    [last_request |-> EmptyDict,
     request_count |-> 0,
     session_start |-> t,
     backoff_factor |-> 100]

\* the hourly branch of can_make_request: the counter, the session start and
\* the backoff are reset once the hour is over
hourly_reset(l, current_time) ==
    [l EXCEPT !.request_count = 0,
              !.session_start = current_time,
              !.backoff_factor = 100]

\* ImprovedYahooRateLimiter.can_make_request: the answer, the limiter after
\* the call and whether the hourly counter was reset
can_make_request(l, symbol, current_time) ==
    IF l.request_count >= max_requests_per_hour /\ current_time - l.session_start < hour
    THEN [ok |-> FALSE, limiter |-> l, reset |-> FALSE]
    ELSE LET over == l.request_count >= max_requests_per_hour
             l2 == IF over THEN hourly_reset(l, current_time) ELSE l
             too_soon == /\ symbol \in DOMAIN l2.last_request
                         /\ (current_time - l2.last_request[symbol]) * 100 < min_interval * l2.backoff_factor
         IN  [ok |-> ~too_soon, limiter |-> l2, reset |-> over]

\* one pass of the body of wait_if_needed's loop without sleep or backoff
wait_if_needed_step_mut_spin(l, jitter) ==
    [slept |-> 0, limiter |-> l]

\* one pass of the body of wait_if_needed's loop: the sleep and the backoff
\* multiplied by 1.2
wait_if_needed_step(l, jitter) ==
    [slept |-> Div(min_interval * l.backoff_factor, 100) + jitter,
     limiter |-> [l EXCEPT !.backoff_factor = Div(l.backoff_factor * 12, 10)]]

\* ImprovedYahooRateLimiter.record_request
record_request(l, symbol, current_time) ==
    [l EXCEPT !.last_request = [x \in DOMAIN l.last_request \cup {symbol} |-> IF x = symbol THEN current_time ELSE l.last_request[x]],
              !.request_count = l.request_count + 1]

\* ImprovedYahooRateLimiter.increase_backoff
increase_backoff(l) ==
    [l EXCEPT !.backoff_factor = Min(l.backoff_factor * 2, backoff_cap)]

\* 2 ** attempt
Pow2(n) == IF n = 0 THEN 1 ELSE IF n = 1 THEN 2 ELSE 4

\* the sleep of safe_yahoo_download after a rate-limit error
retry_wait(attempt, jitter) == base_delay * Pow2(attempt) + jitter

\* what yf.download can do
DownloadOutcomes == {"data", "empty", "rate limit", "error"}

\* the try body of safe_yahoo_download from yf.download on and its except
\* clause, for one answer of yf.download taking `took`: the limiter, the sleep,
\* and whether the call returns (with what) or goes to the next attempt
attempt_outcome(l, symbol, attempt, outcome, current_time, took, jitter) ==
    LET cont == attempt + 1 < max_retries
    IN  CASE outcome = "data" ->
               [limiter |-> record_request(l, symbol, current_time + took), slept |-> 0,
                returns |-> TRUE, result |-> "data"]
          [] outcome = "empty" ->
               [limiter |-> record_request(l, symbol, current_time + took), slept |-> 0,
                returns |-> ~cont, result |-> "empty frame"]
          [] outcome = "rate limit" ->
               [limiter |-> increase_backoff(l), slept |-> retry_wait(attempt, jitter),
                returns |-> ~cont, result |-> "empty frame"]
          [] OTHER ->
               [limiter |-> l, slept |-> 0, returns |-> TRUE, result |-> "empty frame"]

(***************************************************************************)
(* utils/alert_system.py                                                   *)
(***************************************************************************)
\* str.startswith("NO TRADE - OUTSIDE") over the decisions get_final_decision
\* produces
StartsWithNoTradeOutside(signal) == signal = "NO TRADE - OUTSIDE WINDOW"

\* the None that session_state.get answers for a missing key, written as the
\* empty string: both are falsy, and no decision is empty
NoSignal == ""

\* AlertSystem.__init__
AlertSystem(ss) == [previous_signal |-> Get(ss, "previous_signal", NoSignal)]

\* AlertSystem._send_all_alerts: the alerts that go out
send_all_alerts(ss, old_signal, new_signal) ==
    IF ~Get(Get(ss, "alert_settings", EmptyDict), "enabled", FALSE) THEN <<>>
    ELSE <<[old |-> old_signal, new |-> new_signal]>>

\* dict[key] = value
SetItem(d, key, value) == [k \in DOMAIN d \cup {key} |-> IF k = key THEN value ELSE d[k]]

\* check_and_send_alerts alerting on a change to the outside-window decision too
check_and_send_alerts_mut_timing(self, ss, current_analysis) ==
    LET current_signal == current_analysis.decision
        changed == self.previous_signal # NoSignal /\ self.previous_signal # current_signal
    IN  [sent |-> IF changed
                    THEN send_all_alerts(ss, self.previous_signal, current_signal)
                  ELSE <<>>,
         session_state |-> SetItem(ss, "previous_signal", current_signal)]

\* AlertSystem.check_and_send_alerts: the alerts sent and the session state
\* after the call
check_and_send_alerts(self, ss, current_analysis) ==
    LET current_signal == current_analysis.decision
        changed == self.previous_signal # NoSignal /\ self.previous_signal # current_signal
    IN  [sent |-> IF changed /\ ~StartsWithNoTradeOutside(current_signal)
                    THEN send_all_alerts(ss, self.previous_signal, current_signal)
                  ELSE <<>>,
         session_state |-> SetItem(ss, "previous_signal", current_signal)]

(***************************************************************************)
(* Shared initial values                                                   *)
(***************************************************************************)
NoCalls ==
    [spy_data_enhanced |-> <<>>, gap_data |-> <<>>, spy_technical_data |-> <<>>,
     sector_data |-> <<>>, spy_change |-> <<>>, current_spy_price |-> <<>>]

Clock(wd, h, m, s) == [wd |-> wd, sec |-> HMS(h, m, s)]

EntryIdle ==
    /\ gap_analysis = NoResult
    /\ internals = NoResult
    /\ sectors = NoResult
    /\ technicals = NoResult
    /\ spy_data = NoResult
    /\ analysis = NoResult
    /\ window_info = NoResult

ExitIdle ==
    /\ position = NoResult
    /\ exit_signals = NoResult

AlertIdle ==
    /\ session_state = EmptyDict
    /\ alerts = <<>>

YahooIdle ==
    /\ yahoo_limiter = NoResult
    /\ download = NoResult

(***************************************************************************)
(* Inputs shared by the entry-side specifications                          *)
(***************************************************************************)
\* weekday clocks on both sides of every window boundary, a Friday close and
\* the two weekend days
Clocks ==
    {Clock(2, 9, 0, 0), Clock(2, 9, 30, 0), Clock(2, 9, 44, 59),
     Clock(2, 9, 45, 0), Clock(2, 11, 0, 0), Clock(2, 11, 0, 1),
     Clock(2, 11, 30, 0), Clock(2, 14, 30, 0), Clock(2, 16, 0, 0),
     Clock(4, 16, 0, 0), Clock(5, 10, 0, 0), Clock(6, 10, 0, 0)}

\* SPY quotes: a raise, None, {}, and quotes carrying the four fields
SpyQuotes ==
    {QRaise, QNone, QEmpty, QOk(50000, 60, 30, 40), QOk(50200, 30, 0, 0),
     QOk(0, 0, 0, -80)}

\* Tradier 1min histories of today
IntradayHistories ==
    {THRaise, THNone, THNoKey, THNull, THOk(<<>>),
     THOk(<<Bar(50000, 50000, 50000, 50000, 0)>>),
     THOk(<<Bar(49900, 49900, 49900, 49900, 10), Bar(50100, 50100, 50100, 50100, 10)>>),
     THOne(Bar(50100, 50100, 50100, 50100, 5))}

\* a ten-row frame whose last five minutes turn up on doubled volume
ShiftFrame ==
    YOk([i \in 1..10 |->
           IF i <= 5 THEN Row(50000, 50000, 50000, 50000, 10)
           ELSE IF i = 6 THEN Row(49800, 49800, 49800, 49800, 20)
           ELSE IF i < 10 THEN Row(49900, 49900, 49900, 49900, 20)
           ELSE Row(50000, 50000, 50000, 50000, 20)])

\* Yahoo 1d/1m frames of SPY
IntradayFrames ==
    {YRaise, YEmpty,
     YOk(<<Row(50000, 50000, 50000, 50000, 0)>>),
     YOk(<<Row(49900, 50100, 49900, 50000, 10), Row(50000, 50300, 50000, 50300, 10)>>),
     ShiftFrame}

(***************************************************************************)
(* The decision engine applied to arbitrary analyzer points                *)
(***************************************************************************)
SignalGapPoints == {-400, -200, 0, 200, 400}
SignalInternalsPoints == {-300, -100, 0, 100, 300}
SignalSectorsPoints == {-100, -99, -1, 0, 1, 99, 100}
SignalTechnicals == {EmptyDict, [total_points |-> -100], [total_points |-> 100]}
SignalSpyData ==
    {EmptyDict,
     [trend_analysis |-> [ema_points |-> 100, acceleration_points |-> 0],
      momentum_shift |-> [shift_detected |-> TRUE, shift_points |-> 200]],
     [trend_analysis |-> [ema_points |-> -100, acceleration_points |-> -50],
      momentum_shift |-> [shift_detected |-> FALSE, shift_points |-> 200]],
     [trend_analysis |-> EmptyDict,
      momentum_shift |-> [shift_detected |-> TRUE, shift_points |-> -100]]}

InitSignal ==
    /\ pc = "decide"
    /\ AlertIdle
    /\ YahooIdle
    /\ now \in Clocks
    /\ feeds = NoResult
    /\ gap_analysis \in [total_points : SignalGapPoints]
    /\ internals \in [total_points : SignalInternalsPoints]
    /\ sectors \in [total_points : SignalSectorsPoints]
    /\ technicals \in SignalTechnicals
    /\ spy_data \in SignalSpyData
    /\ analysis = NoResult
    /\ window_info = NoResult
    /\ ExitIdle
    /\ calls = NoCalls

\* one call of get_final_decision; the clock it reads is `now`
Decide ==
    /\ pc = "decide"
    /\ analysis' = get_final_decision(gap_analysis, internals, sectors, technicals,
                                      spy_data, now)
    /\ pc' = "done"
    /\ UNCHANGED <<alert_vars, yahoo_vars, now, feeds, gap_analysis, internals, sectors, technicals, spy_data,
                   window_info, exit_vars, calls>>

NextSignal == Decide

SpecSignal == InitSignal /\ [][NextSignal]_vars

(***************************************************************************)
(* The analyzers and resolvers, each run on its own against feed answers   *)
(***************************************************************************)
\* a weekday session, a weekday evening and a Saturday
AnalyzerClocks == {Clock(2, 10, 0, 0), Clock(2, 17, 0, 0), Clock(5, 10, 0, 0)}

\* Tradier 1day histories for the gap: today's open against yesterday's close
DailyHistories ==
    {THRaise, THNone, THNoKey,
     THOne(Bar(50000, 50400, 49900, 50000, 100)),
     THOk(<<Bar(50000, 50400, 49900, 0, 100), Bar(50000, 50400, 49900, 50000, 100)>>)}
    \cup {THOk(<<Bar(50000, 50400, 49900, 50000, 100), Bar(o, o, o, o, 100)>>) :
            o \in {49200, 49600, 50100, 50300, 51300}}

\* Yahoo 5d/1d frames for the gap
DailyFrames ==
    {YRaise, YEmpty,
     YOk(<<Row(50000, 50400, 49900, 50000, 100)>>),
     YOk(<<Row(50000, 50400, 49900, 50000, 100), Row(49500, 49800, 49400, 49700, 100)>>)}

GapFeeds ==
    [tq : SpyQuotes, th : IntradayHistories, yh : IntradayFrames,
     thd : DailyHistories, yhd : DailyFrames, fault : BOOLEAN]

SpyDataFeeds == [tq : SpyQuotes, th : IntradayHistories, yh : IntradayFrames]

\* one breadth quote of the bulk answer: absent, last = null, or a value
NoQuote == [has |-> FALSE, null |-> FALSE, last |-> 0]
NullQuote == [has |-> TRUE, null |-> TRUE, last |-> 0]
BreadthQuote(v) == [has |-> TRUE, null |-> FALSE, last |-> v]

BreadthAnswer(tick, trin, nyad) ==
    LET all == [k \in {"$TICK", "$TRIN", "$NYAD"} |->
                  IF k = "$TICK" THEN tick ELSE IF k = "$TRIN" THEN trin ELSE nyad]
    IN  BOk([k \in {x \in DOMAIN all : all[x].has} |-> all[k]])

BreadthBulks ==
    {BRaise, BNone}
    \cup {BreadthAnswer(tick, trin, nyad) :
            tick \in {NoQuote, NullQuote} \cup {BreadthQuote(v) : v \in {1200, 600, 0, -600, -1200}},
            trin \in {NoQuote, NullQuote} \cup {BreadthQuote(v) : v \in {70, 100, 130}},
            nyad \in {NoQuote} \cup {BreadthQuote(v) : v \in {1500, 0, -1500}}}

\* Yahoo 1d/5m frames of SPY and QQQ for the emergency proxy
EtfFrames ==
    {YRaise, YEmpty,
     YOk(<<Row(50000, 50200, 50000, 50100, 10), Row(50100, 50300, 50100, 50200, 10)>>),
     YOk(<<Row(50000, 50000, 49800, 49900, 10), Row(49900, 49900, 49700, 49800, 10)>>)}

InternalsFeeds ==
    [bulk : BreadthBulks, etf : [{"SPY", "QQQ"} -> EtfFrames],
     main_thread : BOOLEAN, fault : BOOLEAN]

AllSectorQuotes(chg, vol, avg) == [x \in SymbolSet |-> SectorQuote(chg, vol, avg)]

SectorBulks ==
    {BRaise, BNone, BOk(EmptyDict),
     BOk(AllSectorQuotes(120, 150, 100)),
     BOk(AllSectorQuotes(-120, 150, 100)),
     BOk([x \in {"XLK", "XLF"} |-> SectorQuote(60, 100, 100)]),
     BOk([AllSectorQuotes(10, 100, 0) EXCEPT !["XLV"] = BadSectorQuote])}

SectorFrame ==
    YOk(<<Row(10000, 10100, 10000, 10100, 10), Row(10100, 10100, 10100, 10100, 30)>>)

SectorFrames ==
    {[x \in SymbolSet |-> YEmpty],
     [x \in SymbolSet |-> YRaise],
     [x \in SymbolSet |-> SectorFrame],
     [x \in SymbolSet |-> IF x = "XLE" THEN SectorFrame ELSE YEmpty]}

SectorFeeds ==
    [sbulk : SectorBulks, ys : SectorFrames, tq : SpyQuotes, yh : IntradayFrames,
     fault : BOOLEAN]

\* Tradier 1day history of yesterday and Yahoo 2d/1d frame for the levels
YesterdayHistories ==
    {THNone,
     THOne(Bar(49900, 50100, 49700, 49900, 100)),
     THOne(Bar(49900, 49950, 49700, 49900, 100)),
     THOne(Bar(49900, 0, 0, 49900, 100)),
     THOk(<<Bar(49900, 50100, 49700, 49900, 100), Bar(50000, 50400, 49900, 50000, 100)>>)}

YesterdayFrames ==
    {YEmpty,
     YOk(<<Row(50000, 50400, 50100, 50200, 100)>>),
     YOk(<<Row(50000, 50400, 50100, 50200, 100), Row(50200, 50300, 50000, 50100, 100)>>)}

TechnicalFeeds ==
    [tq : SpyQuotes, th : IntradayHistories, yh : IntradayFrames,
     thy : YesterdayHistories, yh2 : YesterdayFrames, fault : BOOLEAN]

SpotFeeds == [tq : SpyQuotes, yh : IntradayFrames]

InitAnalyzers ==
    /\ pc = "idle"
    /\ AlertIdle
    /\ YahooIdle
    /\ now = Clock(2, 10, 0, 0)
    /\ feeds = NoResult
    /\ EntryIdle
    /\ ExitIdle
    /\ calls = NoCalls

\* GapAnalyzer.get_spy_data_enhanced called on its own
RunSpyData ==
    /\ pc = "idle"
    /\ \E t \in AnalyzerClocks, f \in SpyDataFeeds :
         /\ now' = t
         /\ feeds' = f
         /\ spy_data' = get_spy_data_enhanced(f.tq, f.th, f.yh, t)
         /\ calls' = [NoCalls EXCEPT !.spy_data_enhanced = spy_data'.tiers]
    /\ pc' = "spy_data_done"
    /\ UNCHANGED <<alert_vars, yahoo_vars, gap_analysis, internals, sectors, technicals, analysis,
                   window_info, exit_vars>>

\* GapAnalyzer.calculate_gap_analysis; the gap is not asked for on a weekend
RunGapAnalysis ==
    /\ pc = "idle"
    /\ \E t \in AnalyzerClocks, f \in GapFeeds :
         /\ now' = t
         /\ feeds' = f
         /\ gap_analysis' = calculate_gap_analysis(f, t)
         /\ calls' = [NoCalls EXCEPT
                        !.spy_data_enhanced =
                            get_spy_data_enhanced(f.tq, f.th, f.yh, t).tiers,
                        !.gap_data = IF t.wd >= 5 THEN <<>>
                                     ELSE get_gap_data(f.thd, f.yhd).tiers]
    /\ pc' = "gap_done"
    /\ UNCHANGED <<alert_vars, yahoo_vars, internals, sectors, technicals, spy_data, analysis,
                   window_info, exit_vars>>

\* InternalsAnalyzer.analyze_market_internals
RunInternals ==
    /\ pc = "idle"
    /\ \E f \in InternalsFeeds :
         /\ feeds' = f
         /\ internals' = analyze_market_internals(f)
    /\ pc' = "internals_done"
    /\ UNCHANGED <<alert_vars, yahoo_vars, now, gap_analysis, sectors, technicals, spy_data, analysis,
                   window_info, exit_vars, calls>>

\* SectorAnalyzer.analyze_sectors
RunSectors ==
    /\ pc = "idle"
    /\ \E f \in SectorFeeds :
         /\ feeds' = f
         /\ sectors' = analyze_sectors(f)
         /\ calls' = [NoCalls EXCEPT
                        !.sector_data = get_sector_data(f.sbulk, f.ys).tiers,
                        !.spy_change = get_spy_change(f.tq, f.yh).tiers]
    /\ pc' = "sectors_done"
    /\ UNCHANGED <<alert_vars, yahoo_vars, now, gap_analysis, internals, technicals, spy_data, analysis,
                   window_info, exit_vars>>

\* TechnicalAnalyzer._get_spy_technical_data called on its own
RunSpyTechnicalData ==
    /\ pc = "idle"
    /\ \E f \in SpyDataFeeds :
         /\ feeds' = f
         /\ spy_data' = get_spy_technical_data(f.tq, f.th, f.yh)
         /\ calls' = [NoCalls EXCEPT !.spy_technical_data = spy_data'.tiers]
    /\ pc' = "spy_technical_done"
    /\ UNCHANGED <<alert_vars, yahoo_vars, now, gap_analysis, internals, sectors, technicals, analysis,
                   window_info, exit_vars>>

\* TechnicalAnalyzer.analyze_technicals
RunTechnicals ==
    /\ pc = "idle"
    /\ \E f \in TechnicalFeeds :
         /\ feeds' = f
         /\ technicals' = analyze_technicals(f)
         /\ calls' = [NoCalls EXCEPT
                        !.spy_technical_data =
                            get_spy_technical_data(f.tq, f.th, f.yh).tiers]
    /\ pc' = "technicals_done"
    /\ UNCHANGED <<alert_vars, yahoo_vars, now, gap_analysis, internals, sectors, spy_data, analysis,
                   window_info, exit_vars>>

\* ExitSignalManager._get_current_spy_price called on its own; the price and
\* its source tag are kept in spy_data
RunSpotPrice ==
    /\ pc = "idle"
    /\ \E f \in SpotFeeds :
         /\ feeds' = f
         /\ spy_data' = get_current_spy_price(f.tq, f.yh)
         /\ calls' = [NoCalls EXCEPT
                        !.current_spy_price = get_current_spy_price(f.tq, f.yh).calls]
    /\ pc' = "spot_done"
    /\ UNCHANGED <<alert_vars, yahoo_vars, now, gap_analysis, internals, sectors, technicals, analysis,
                   window_info, exit_vars>>

\* the caller takes the result
ReturnResult ==
    /\ pc \in {"spy_data_done", "gap_done", "internals_done", "sectors_done",
               "spy_technical_done", "technicals_done", "spot_done"}
    /\ pc' = "idle"
    /\ feeds' = NoResult
    /\ gap_analysis' = NoResult
    /\ internals' = NoResult
    /\ sectors' = NoResult
    /\ technicals' = NoResult
    /\ spy_data' = NoResult
    /\ calls' = NoCalls
    /\ UNCHANGED <<alert_vars, yahoo_vars, now, analysis, window_info, exit_vars>>

NextAnalyzers ==
    \/ RunSpyData
    \/ RunGapAnalysis
    \/ RunInternals
    \/ RunSectors
    \/ RunSpyTechnicalData
    \/ RunTechnicals
    \/ RunSpotPrice
    \/ ReturnResult

SpecAnalyzers == InitAnalyzers /\ [][NextAnalyzers]_vars

(***************************************************************************)
(* The exit evaluator, one evaluation of get_exit_signals step by step     *)
(***************************************************************************)
ExitDecisions == {"STRONG LONG", "MODERATE SHORT"}
ExitEntryPrices == {200, 50000}
ExitTargets ==
    {[upside_target |-> 0, downside_target |-> 0],
     [upside_target |-> 50500, downside_target |-> 49500],
     EmptyDict}
ExitTradeDetails ==
    {[trade_type |-> "OPTIONS", strike |-> 50000],
     [trade_type |-> "STOCK", strike |-> 0]}

Positions ==
    [entry_decision : ExitDecisions,
     entry_price : ExitEntryPrices,
     entry_time : {[aware |-> TRUE, sec |-> HMS(10, 0, 0)]},
     targets : ExitTargets,
     trade_details : ExitTradeDetails]
    \cup
    {[entry_decision |-> "STRONG LONG", entry_price |-> 200,
      entry_time |-> [aware |-> FALSE, sec |-> HMS(10, 0, 0)],
      targets |-> EmptyDict, trade_details |-> None]}

ExitClocks ==
    {Clock(2, 10, 30, 0), Clock(2, 14, 29, 59), Clock(2, 14, 30, 0),
     Clock(2, 14, 59, 59), Clock(2, 15, 0, 0), Clock(2, 15, 29, 59),
     Clock(2, 15, 30, 0), Clock(2, 16, 30, 0)}

ExitQuotes == {QNone, QOk(50000, 100, 100, 10), QOk(50600, 100, 100, 10),
               QOk(49400, 100, 100, 10)}
ExitFrames == {YEmpty, YOk(<<Row(50000, 50200, 49900, 50100, 10)>>)}
ChainNone == [kind |-> "none"]
ChainOk(bid, ask, last) == [kind |-> "ok", bid |-> bid, ask |-> ask, last |-> last]
ExitChains ==
    {ChainNone, ChainOk(0, 0, 0)}
    \cup {ChainOk(m - 1, m + 1, m) : m \in {400, 300, 250, 200, 140, 100, 60}}
    \cup {ChainOk(0, 0, l) : l \in {399, 249, 141, 59}}

ExitFeeds == [tq : ExitQuotes, yh : ExitFrames, chain : ExitChains]

InitExit ==
    /\ pc = "idle"
    /\ AlertIdle
    /\ YahooIdle
    /\ now = Clock(2, 10, 30, 0)
    /\ feeds = NoResult
    /\ EntryIdle
    /\ position \in Positions
    /\ exit_signals = NoResult
    /\ calls = NoCalls

\* get_exit_signals is entered: the clock is read, the valuation resolved and
\* the P&L computed (lines 60-116)
ExitValuation ==
    /\ pc = "idle"
    /\ \E t \in ExitClocks, f \in ExitFeeds :
         /\ now' = t
         /\ feeds' = f
         /\ exit_signals' = exit_valuation(position, f, t)
         /\ calls' = [calls EXCEPT !.current_spy_price =
                         get_current_spy_price(f.tq, f.yh).calls]
    /\ pc' = "exit_time"
    /\ UNCHANGED <<alert_vars, yahoo_vars, entry_vars, position>>

ExitTime ==
    /\ pc = "exit_time"
    /\ exit_signals' = analyze_time_exits(exit_signals, seconds_to_close(now))
    /\ pc' = "exit_profit"
    /\ UNCHANGED <<alert_vars, yahoo_vars, now, feeds, entry_vars, position, calls>>

ExitProfit ==
    /\ pc = "exit_profit"
    /\ exit_signals' = analyze_profit_exits(exit_signals, exit_signals.profit_loss_pct)
    /\ pc' = "exit_loss"
    /\ UNCHANGED <<alert_vars, yahoo_vars, now, feeds, entry_vars, position, calls>>

ExitStopLoss ==
    /\ pc = "exit_loss"
    /\ exit_signals' = analyze_stop_loss_exits(exit_signals, exit_signals.profit_loss_pct)
    /\ pc' = "exit_target"
    /\ UNCHANGED <<alert_vars, yahoo_vars, now, feeds, entry_vars, position, calls>>

ExitTarget ==
    /\ pc = "exit_target"
    /\ exit_signals' = analyze_target_exits(exit_signals, position.entry_decision,
                                            position.targets, feeds)
    /\ position' = [position EXCEPT !.targets = targets_after_get(@, exit_signals.entry_price)]
    /\ pc' = "exit_final"
    /\ UNCHANGED <<alert_vars, yahoo_vars, now, feeds, entry_vars, calls>>

ExitFinal ==
    /\ pc = "exit_final"
    /\ exit_signals' = make_final_exit_decision(exit_signals)
    /\ pc' = "exit_done"
    /\ UNCHANGED <<alert_vars, yahoo_vars, now, feeds, entry_vars, position, calls>>

\* the caller takes the result; the next evaluation starts afresh
ExitReturn ==
    /\ pc = "exit_done"
    /\ pc' = "idle"
    /\ exit_signals' = NoResult
    /\ feeds' = NoResult
    /\ UNCHANGED <<alert_vars, yahoo_vars, now, entry_vars, position, calls>>

NextExit ==
    \/ ExitValuation
    \/ ExitTime
    \/ ExitProfit
    \/ ExitStopLoss
    \/ ExitTarget
    \/ ExitFinal
    \/ ExitReturn

SpecExit == InitExit /\ [][NextExit]_vars


(***************************************************************************)
(* One dashboard run: main() builds the analyzers, reads the window status *)
(* and calls get_market_analysis                                           *)
(***************************************************************************)
\* the server's zone against US/Eastern, in seconds: Eastern and Pacific
TzOffsets == {0, -3 * 3600}
LocalTime(t, off) == (t.sec + off + 86400) % 86400

FailedGapFeed ==
    [tq |-> QNone, th |-> THNone, yh |-> YEmpty, thd |-> THNone, yhd |-> YEmpty,
     fault |-> FALSE]
TradierGapFeed(open) ==
    [tq |-> QOk(50200, 60, 30, 40),
     th |-> THOk(<<Bar(49900, 49900, 49900, 49900, 10),
                   Bar(50100, 50100, 50100, 50100, 10)>>),
     yh |-> YEmpty,
     thd |-> THOk(<<Bar(50000, 50400, 49900, 50000, 100),
                    Bar(open, open, open, open, 100)>>),
     yhd |-> YEmpty,
     fault |-> FALSE]
MarketGapFeeds ==
    {FailedGapFeed, [FailedGapFeed EXCEPT !.fault = TRUE],
     TradierGapFeed(49200), TradierGapFeed(50300), TradierGapFeed(50800)}

FailedEtfs == [x \in {"SPY", "QQQ"} |-> YEmpty]
MarketInternalsFeeds ==
    {[bulk |-> BNone, etf |-> FailedEtfs, main_thread |-> TRUE, fault |-> FALSE],
     [bulk |-> BreadthAnswer(BreadthQuote(1200), BreadthQuote(70), BreadthQuote(1500)),
      etf |-> FailedEtfs, main_thread |-> TRUE, fault |-> FALSE],
     [bulk |-> BreadthAnswer(BreadthQuote(-1200), BreadthQuote(130), BreadthQuote(-1500)),
      etf |-> FailedEtfs, main_thread |-> TRUE, fault |-> FALSE],
     [bulk |-> BNone,
      etf |-> [x \in {"SPY", "QQQ"} |->
                 YOk(<<Row(50000, 50200, 50000, 50100, 10),
                       Row(50100, 50300, 50100, 50200, 10)>>)],
      main_thread |-> FALSE, fault |-> FALSE]}

MarketSectorFeeds ==
    {[sbulk |-> BNone, ys |-> [x \in SymbolSet |-> YEmpty], tq |-> QNone,
      yh |-> YEmpty, fault |-> FALSE],
     [sbulk |-> BOk(AllSectorQuotes(120, 150, 100)), ys |-> [x \in SymbolSet |-> YEmpty],
      tq |-> QOk(50200, 60, 30, 40), yh |-> YEmpty, fault |-> FALSE],
     [sbulk |-> BOk(AllSectorQuotes(-120, 150, 100)), ys |-> [x \in SymbolSet |-> YEmpty],
      tq |-> QOk(50200, 60, 30, 40), yh |-> YEmpty, fault |-> FALSE]}

MarketTechnicalFeeds ==
    {[tq |-> QNone, th |-> THNone, yh |-> YEmpty, thy |-> THNone, yh2 |-> YEmpty,
      fault |-> FALSE],
     [tq |-> QOk(50200, 60, 30, 40), th |-> THNone,
      yh |-> YOk(<<Row(49900, 50100, 49900, 50000, 10),
                   Row(50000, 50300, 50000, 50300, 10)>>),
      thy |-> THOne(Bar(49900, 50100, 49700, 49900, 100)), yh2 |-> YEmpty,
      fault |-> FALSE],
     [tq |-> QOk(50200, 60, 30, 40), th |-> THNone, yh |-> YEmpty,
      thy |-> THOne(Bar(49900, 0, 0, 49900, 100)), yh2 |-> YEmpty,
      fault |-> FALSE]}

MarketSpyFeeds ==
    {[tq |-> QNone, th |-> THNone, yh |-> YEmpty],
     [tq |-> QOk(50200, 60, 30, 40),
      th |-> THOk(<<Bar(49900, 49900, 49900, 49900, 10),
                    Bar(50100, 50100, 50100, 50100, 10)>>),
      yh |-> YEmpty],
     [tq |-> QOk(50000, 60, 30, 40), th |-> THNone, yh |-> ShiftFrame],
     [tq |-> QNone, th |-> THNone, yh |-> ShiftFrame]}

Init ==
    /\ pc = "idle"
    /\ AlertIdle
    /\ YahooIdle
    /\ now = Clock(2, 9, 0, 0)
    /\ feeds = NoResult
    /\ EntryIdle
    /\ ExitIdle
    /\ calls = NoCalls

\* main(): GapAnalyzer(api) stores its construction time, and
\* get_trading_window_status reads the server's local clock (lines 355-364)
StartRun ==
    /\ pc = "idle"
    /\ \E t \in Clocks, off \in TzOffsets :
         /\ now' = t
         /\ window_info' = get_trading_window_status(LocalTime(t, off))
    /\ pc' = "gap"
    /\ UNCHANGED <<alert_vars, yahoo_vars, feeds, gap_analysis, internals, sectors, technicals, spy_data,
                   analysis, exit_vars, calls>>

\* get_market_analysis, line 594
MarketGap ==
    /\ pc = "gap"
    /\ \E f \in MarketGapFeeds :
         /\ feeds' = f
         /\ gap_analysis' = calculate_gap_analysis(f, now)
    /\ pc' = "internals"
    /\ UNCHANGED <<alert_vars, yahoo_vars, now, internals, sectors, technicals, spy_data, analysis,
                   window_info, exit_vars, calls>>

\* get_market_analysis, line 595
MarketInternals ==
    /\ pc = "internals"
    /\ \E f \in MarketInternalsFeeds :
         /\ feeds' = f
         /\ internals' = analyze_market_internals(f)
    /\ pc' = "sectors"
    /\ UNCHANGED <<alert_vars, yahoo_vars, now, gap_analysis, sectors, technicals, spy_data, analysis,
                   window_info, exit_vars, calls>>

\* get_market_analysis, line 596
MarketSectors ==
    /\ pc = "sectors"
    /\ \E f \in MarketSectorFeeds :
         /\ feeds' = f
         /\ sectors' = analyze_sectors(f)
    /\ pc' = "technicals"
    /\ UNCHANGED <<alert_vars, yahoo_vars, now, gap_analysis, internals, technicals, spy_data, analysis,
                   window_info, exit_vars, calls>>

\* get_market_analysis, line 597
MarketTechnicals ==
    /\ pc = "technicals"
    /\ \E f \in MarketTechnicalFeeds :
         /\ feeds' = f
         /\ technicals' = analyze_technicals(f)
    /\ pc' = "spy_data"
    /\ UNCHANGED <<alert_vars, yahoo_vars, now, gap_analysis, internals, sectors, spy_data, analysis,
                   window_info, exit_vars, calls>>

\* get_market_analysis, line 598
MarketSpyData ==
    /\ pc = "spy_data"
    /\ \E f \in MarketSpyFeeds :
         /\ feeds' = f
         /\ spy_data' = get_spy_data_enhanced(f.tq, f.th, f.yh, now)
    /\ pc' = "decision"
    /\ UNCHANGED <<alert_vars, yahoo_vars, now, gap_analysis, internals, sectors, technicals, analysis,
                   window_info, exit_vars, calls>>

\* get_market_analysis, lines 600-614: the breadth weighting, then
\* get_final_decision, which reads the clock again, then window_info is attached
MarketDecision ==
    /\ pc = "decision"
    /\ \E t \in Clocks :
         /\ t.wd = now.wd
         /\ t.sec >= now.sec
         /\ now' = t
         /\ internals' = apply_breadth_weight(internals, window_info)
         /\ LET d == get_final_decision(gap_analysis, internals', sectors,
                                        technicals, spy_data, t)
            IN  analysis' = [k \in DOMAIN d \cup {"window_info"} |->
                               IF k = "window_info" THEN window_info ELSE d[k]]
    /\ pc' = "done"
    /\ UNCHANGED <<alert_vars, yahoo_vars, feeds, gap_analysis, sectors, technicals, spy_data, window_info,
                   exit_vars, calls>>

\* the page is rendered; the next run starts afresh
FinishRun ==
    /\ pc = "done"
    /\ pc' = "idle"
    /\ feeds' = NoResult
    /\ gap_analysis' = NoResult
    /\ internals' = NoResult
    /\ sectors' = NoResult
    /\ technicals' = NoResult
    /\ spy_data' = NoResult
    /\ analysis' = NoResult
    /\ window_info' = NoResult
    /\ UNCHANGED <<alert_vars, yahoo_vars, now, exit_vars, calls>>

Next ==
    \/ StartRun
    \/ MarketGap
    \/ MarketInternals
    \/ MarketSectors
    \/ MarketTechnicals
    \/ MarketSpyData
    \/ MarketDecision
    \/ FinishRun

Spec == Init /\ [][Next]_vars

(***************************************************************************)
(* check_trading_window applied to a clock reading                         *)
(***************************************************************************)
\* midnight, both sides of every boundary, and times inside every regime
WindowSeconds ==
    {HMS(0, 0, 0), HMS(3, 0, 0), market_open - 1, market_open, market_open + 1,
     trading_start - 1, trading_start, trading_start + 1, HMS(10, 30, 0),
     trading_end - 1, trading_end, trading_end + 1, lunch_start - 1,
     lunch_start, HMS(13, 0, 0), danger_zone - 1, danger_zone,
     market_close - 1, market_close, market_close + 1, HMS(20, 0, 0),
     HMS(23, 59, 59)}

WindowClocks == [wd : 0..6, sec : WindowSeconds]

InitWindow ==
    /\ pc = "call"
    /\ AlertIdle
    /\ YahooIdle
    /\ now \in WindowClocks
    /\ feeds = NoResult
    /\ EntryIdle
    /\ ExitIdle
    /\ calls = NoCalls

\* trading_window_ok, window_message = gap_analyzer.check_trading_window()
CheckWindow ==
    /\ pc = "call"
    /\ analysis' = [trading_window_ok |-> check_trading_window(now).ok,
                    window_message |-> check_trading_window(now).msg]
    /\ pc' = "window_checked"
    /\ UNCHANGED <<alert_vars, yahoo_vars, now, feeds, gap_analysis, internals, sectors, technicals,
                   spy_data, window_info, exit_vars, calls>>

NextWindow == CheckWindow

SpecWindow == InitWindow /\ [][NextWindow]_vars

(***************************************************************************)
(* The gap scoring applied to a gap, a VWAP distance and volumes           *)
(***************************************************************************)
\* gaps in hundredths of a percent: on, just under and between the bucket
\* bounds 0.5, 0.75, 1.5 and 2.5, in both directions, and no gap
GapPercents ==
    {-300, -250, -249, -200, -150, -149, -100, -75, -74, -50, -49, -10, 0,
     10, 49, 50, 74, 75, 100, 149, 150, 200, 249, 250, 300}

\* spy_data with a VWAP distance in hundredths of a percent, and without vwap_data
GapSpyData ==
    {[vwap_data |-> [distance_pct |-> d]] : d \in {-30, -26, -25, -11, -10, 0, 10, 11, 25, 30}}
    \cup {EmptyDict}

\* today's and the average volume, in thousands of shares
GapVolumes ==
    {[today |-> 50000, avg |-> 45000], [today |-> 67500, avg |-> 45000],
     [today |-> 90000, avg |-> 45000], [today |-> 50000, avg |-> 0]}

InitGapPoints ==
    /\ pc = "call"
    /\ AlertIdle
    /\ YahooIdle
    /\ now = Clock(2, 10, 0, 0)
    /\ feeds \in [gap_pct : GapPercents, spy_data : GapSpyData, volume : GapVolumes]
    /\ EntryIdle
    /\ ExitIdle
    /\ calls = NoCalls

\* calculate_gap_analysis from the gap on (lines 212-229)
ScoreGap ==
    /\ pc = "call"
    /\ LET points_breakdown ==
               calculate_points_breakdown(feeds.gap_pct, feeds.spy_data,
                                          feeds.volume.today, feeds.volume.avg)
       IN  gap_analysis' =
               [gap_pct |-> feeds.gap_pct,
                gap_size_category |-> get_gap_category(Abs(feeds.gap_pct)),
                vwap_distance_pct |->
                    Get(Get(feeds.spy_data, "vwap_data", EmptyDict), "distance_pct", 0),
                total_points |-> points_breakdown.final_points,
                points_breakdown |-> points_breakdown]
    /\ pc' = "gap_scored"
    /\ UNCHANGED <<alert_vars, yahoo_vars, now, feeds, internals, sectors, technicals, spy_data, analysis,
                   window_info, exit_vars, calls>>

NextGapPoints == ScoreGap

SpecGapPoints == InitGapPoints /\ [][NextGapPoints]_vars

(***************************************************************************)
(* The Yahoo rate limiter under calls of safe_yahoo_download, one pass of  *)
(* the wait loop and one yf.download per step                              *)
(***************************************************************************)
YahooSymbols == {"SPY"}
JitterTimes == {3}
WaitJitters == {5, 15}
RetryJitters == {20}
DownloadTimes == {10}
IdleTimes == {600}
RecordedCounts == {49, 50}
SessionAges == {35800}
SinceLast == {1, 600}
MaxCalls == 2

\* the limiter after n requests for SPY, all answered and none closer than
\* min_interval to the one before, the last of them recorded at time t
LimiterAfter(n, t) ==
    [ImprovedYahooRateLimiter(0) EXCEPT !.last_request = [x \in {"SPY"} |-> t],
                                        !.request_count = n]

\* the limiter as constructed, or after a run of answered requests
InitYahoo ==
    /\ pc = "idle"
    /\ AlertIdle
    /\ feeds = NoResult
    /\ EntryIdle
    /\ ExitIdle
    /\ download = NoResult
    /\ \/ /\ now = 0
          /\ yahoo_limiter = ImprovedYahooRateLimiter(0)
          /\ calls = [yf_download |-> 0, safe_yahoo_download |-> 0]
       \/ \E n \in RecordedCounts, age \in SessionAges, since \in SinceLast :
            /\ now = age
            /\ yahoo_limiter = LimiterAfter(n, age - since)
            /\ calls = [yf_download |-> n, safe_yahoo_download |-> 0]

\* safe_yahoo_download(symbol) is entered: attempt 0
SafeYahooDownload ==
    /\ pc = "idle"
    /\ calls.safe_yahoo_download < MaxCalls
    /\ \E symbol \in YahooSymbols :
         download' = [symbol |-> symbol, attempt |-> 0, requests |-> 0,
                      last |-> "none", result |-> "none"]
    /\ calls' = [calls EXCEPT !.safe_yahoo_download = @ + 1]
    /\ pc' = "wait"
    /\ UNCHANGED <<now, feeds, entry_vars, exit_vars, alert_vars, yahoo_limiter>>

\* one evaluation of wait_if_needed's loop condition: either the loop body, or
\* the loop ends and the jitter sleep before the request follows
WaitIfNeeded ==
    /\ pc = "wait"
    /\ LET c == can_make_request(yahoo_limiter, download.symbol, now)
       IN  /\ calls' = IF c.reset THEN [calls EXCEPT !.yf_download = 0] ELSE calls
           /\ IF c.ok
              THEN /\ yahoo_limiter' = c.limiter
                   /\ \E j \in JitterTimes : now' = now + j
                   /\ pc' = "request"
              ELSE \E j \in WaitJitters :
                     LET w == wait_if_needed_step(c.limiter, j)
                     IN  /\ yahoo_limiter' = w.limiter
                         /\ now' = now + w.slept
                         /\ pc' = "wait"
    /\ UNCHANGED <<feeds, entry_vars, exit_vars, alert_vars, download>>

\* yf.download answers, and the rest of the attempt
YfDownload ==
    /\ pc = "request"
    /\ \E outcome \in DownloadOutcomes, took \in DownloadTimes, j \in RetryJitters :
         LET a == attempt_outcome(yahoo_limiter, download.symbol, download.attempt, outcome, now, took, j)
         IN  /\ yahoo_limiter' = a.limiter
             /\ now' = now + took + a.slept
             /\ download' = [download EXCEPT !.attempt = IF a.returns THEN @ ELSE @ + 1,
                                             !.requests = @ + 1,
                                             !.last = outcome,
                                             !.result = IF a.returns THEN a.result ELSE "none"]
             /\ pc' = IF a.returns THEN "returned" ELSE "wait"
    /\ calls' = [calls EXCEPT !.yf_download = @ + 1]
    /\ UNCHANGED <<feeds, entry_vars, exit_vars, alert_vars>>

\* the caller takes the frame, and time passes until the next call
YahooReturn ==
    /\ pc = "returned"
    /\ pc' = "idle"
    /\ download' = NoResult
    /\ \E d \in IdleTimes : now' = now + d
    /\ UNCHANGED <<feeds, entry_vars, exit_vars, alert_vars, calls, yahoo_limiter>>

NextYahoo ==
    \/ SafeYahooDownload
    \/ WaitIfNeeded
    \/ YfDownload
    \/ YahooReturn

SpecYahoo == InitYahoo /\ [][NextYahoo]_vars

\* the interpreter runs a call to its end, and yf.download answers
SpecYahooLive ==
    /\ SpecYahoo
    /\ WF_vars(WaitIfNeeded)
    /\ WF_vars(YfDownload)
    /\ WF_vars(YahooReturn)

(***************************************************************************)
(* The alert check over successive dashboard runs                          *)
(***************************************************************************)
AlertDecisions ==
    {"STRONG LONG", "MODERATE LONG", "STRONG SHORT", "MODERATE SHORT", "NO TRADE",
     "NO TRADE - OUTSIDE WINDOW"}
MaxCycles == 3

InitAlerts ==
    /\ pc = "idle"
    /\ AlertIdle
    /\ YahooIdle
    /\ now = Clock(2, 10, 0, 0)
    /\ feeds = NoResult
    /\ EntryIdle
    /\ ExitIdle
    /\ calls = [cycles |-> 0]

\* a run of main() up to the alert check: setup_alert_ui stores the settings
\* and get_market_analysis answers
AlertRun ==
    /\ pc = "idle"
    /\ calls.cycles < MaxCycles
    /\ \E enabled \in BOOLEAN, d \in AlertDecisions :
         /\ session_state' = SetItem(session_state, "alert_settings", [enabled |-> enabled])
         /\ analysis' = [decision |-> d]
    /\ calls' = [cycles |-> calls.cycles + 1]
    /\ pc' = "analysed"
    /\ UNCHANGED <<now, feeds, gap_analysis, internals, sectors, technicals, spy_data,
                   window_info, exit_vars, alerts, yahoo_vars>>

\* main.py lines 387-389 with alerts enabled
CheckAndSendAlerts ==
    /\ pc = "analysed"
    /\ session_state["alert_settings"].enabled
    /\ LET r == check_and_send_alerts(AlertSystem(session_state), session_state, analysis)
       IN  /\ alerts' = alerts \o r.sent
           /\ session_state' = r.session_state
    /\ pc' = "idle"
    /\ UNCHANGED <<now, feeds, entry_vars, exit_vars, calls, yahoo_vars>>

\* main.py line 387 with alerts disabled
SkipAlerts ==
    /\ pc = "analysed"
    /\ ~session_state["alert_settings"].enabled
    /\ pc' = "idle"
    /\ UNCHANGED <<now, feeds, entry_vars, exit_vars, calls, alert_vars, yahoo_vars>>

NextAlerts ==
    \/ AlertRun
    \/ CheckAndSendAlerts
    \/ SkipAlerts

SpecAlerts == InitAlerts /\ [][NextAlerts]_vars

(***************************************************************************)
(* Properties                                                              *)
(***************************************************************************)
\* the label the thresholds 7.0 and 5.0 assign to a net score
LabelOf(net) ==
    IF net >= 700 THEN "STRONG LONG"
    ELSE IF net >= 500 THEN "MODERATE LONG"
    ELSE IF net <= -700 THEN "STRONG SHORT"
    ELSE IF net <= -500 THEN "MODERATE SHORT"
    ELSE "NO TRADE"

ConfidenceOf(label) ==
    IF label \in {"STRONG LONG", "STRONG SHORT"} THEN "HIGH"
    ELSE IF label \in {"MODERATE LONG", "MODERATE SHORT"} THEN "MEDIUM"
    ELSE "LOW"

Net == analysis.bullish_points - analysis.bearish_points

\* C1: with net = bullish - bearish, the raw signal is STRONG LONG iff
\* net >= 7.0, MODERATE LONG iff 5.0 <= net < 7.0, STRONG SHORT iff net <= -7.0,
\* MODERATE SHORT iff -7.0 < net <= -5.0, and NO TRADE otherwise.
C1_ThresholdClassification ==
    pc = "done" =>
        /\ (analysis.raw_signal = "STRONG LONG") <=> (Net >= 700)
        /\ (analysis.raw_signal = "MODERATE LONG") <=> (500 <= Net /\ Net < 700)
        /\ (analysis.raw_signal = "STRONG SHORT") <=> (Net <= -700)
        /\ (analysis.raw_signal = "MODERATE SHORT") <=> (-700 < Net /\ Net <= -500)
        /\ (analysis.raw_signal = "NO TRADE") <=> (-500 < Net /\ Net < 500)

\* a decision whose net score is exactly 7.0 and is classified STRONG LONG
C1_Witness ==
    /\ pc = "done"
    /\ Net = 700
    /\ analysis.raw_signal = "STRONG LONG"

\* the tradeable prime window: a weekday between 09:45:00 and 11:00:00
InPrimeWindow(t) == t.wd < 5 /\ HMS(9, 45, 0) <= t.sec /\ t.sec <= HMS(11, 0, 0)

\* C2: outside the prime window the decision is NO TRADE - OUTSIDE WINDOW,
\* raw_signal and confidence are still the ungated classification of the net
\* score and timing_warning is not null; inside it the decision is the raw
\* signal and timing_warning is null.
C2_WindowGate ==
    pc = "done" =>
        /\ analysis.raw_signal = LabelOf(Net)
        /\ analysis.confidence = ConfidenceOf(LabelOf(Net))
        /\ IF InPrimeWindow(now)
             THEN /\ analysis.decision = analysis.raw_signal
                  /\ analysis.timing_warning = None
             ELSE /\ analysis.decision = "NO TRADE - OUTSIDE WINDOW"
                  /\ analysis.timing_warning # None

\* a strong raw signal produced outside the prime window and overridden
C2_Witness ==
    /\ pc = "done"
    /\ ~InPrimeWindow(now)
    /\ analysis.raw_signal = "STRONG SHORT"
    /\ analysis.decision = "NO TRADE - OUTSIDE WINDOW"
    /\ analysis.confidence = "HIGH"

\* the trend contribution as the decision engine is meant to form it: EMA and
\* acceleration points, plus the shift points of a detected momentum shift
TrendInput(sd) ==
    LET ta == Get(sd, "trend_analysis", EmptyDict)
        ms == Get(sd, "momentum_shift", EmptyDict)
    IN  Get(ta, "ema_points", 0) + Get(ta, "acceleration_points", 0)
        + (IF Get(ms, "shift_detected", FALSE) THEN Get(ms, "shift_points", 0) ELSE 0)

\* the five contributions that enter the totals
Contributions ==
    <<Get(gap_analysis, "total_points", 0), Get(internals, "total_points", 0),
      Get(sectors, "total_points", 0), Get(technicals, "total_points", 0),
      TrendInput(spy_data)>>

PositivePart(p) == IF p > 0 THEN p ELSE 0

\* C9: bullish_total is the sum of max(0, p) and bearish_total the sum of
\* max(0, -p) over the five contributions, both are >= 0, one of the five
\* labels is selected, and equal totals give NO TRADE.
C9_PointTotals ==
    pc = "done" =>
        /\ analysis.bullish_points =
               SumSeq([i \in 1..5 |-> PositivePart(Contributions[i])])
        /\ analysis.bearish_points =
               SumSeq([i \in 1..5 |-> PositivePart(-Contributions[i])])
        /\ analysis.bullish_points >= 0
        /\ analysis.bearish_points >= 0
        /\ analysis.raw_signal \in {"STRONG LONG", "MODERATE LONG", "STRONG SHORT",
                                    "MODERATE SHORT", "NO TRADE"}
        /\ (analysis.bullish_points = analysis.bearish_points
              => analysis.raw_signal = "NO TRADE")

\* a tie between non-zero totals, with a negative trend contribution
C9_Witness ==
    /\ pc = "done"
    /\ analysis.bullish_points = analysis.bearish_points
    /\ analysis.bullish_points > 0
    /\ TrendInput(spy_data) < 0
    /\ analysis.raw_signal = "NO TRADE"

\* C10: the exit_score get_exit_signals returns lies in 0..10 (the time tier +8
\* with the loss tier +8, with or without the +5 target bonus, is reported as
\* 10), and should_exit is true iff the accumulated score is >= 5.
C10_ExitScoreSaturation ==
    [][pc = "exit_final" =>
         /\ exit_signals'.exit_score \in 0..10
         /\ exit_signals'.should_exit <=> (exit_signals.exit_score >= 5)
         /\ (exit_signals.exit_score >= 16 => exit_signals'.exit_score = 10)]_vars

\* a returned result in which the final-30-minutes tier and the major stop
\* loss tier both fired and the score reads 10
C10_Witness ==
    /\ pc = "exit_done"
    /\ exit_signals.time_warnings = <<"FINAL 30 MINUTES">>
    /\ \E i \in 1..Len(exit_signals.reasons) : exit_signals.reasons[i] = "MAJOR STOP LOSS"
    /\ exit_signals.exit_score = 10
    /\ exit_signals.should_exit


\* a result that is a dict carrying a number under total_points
HasNumericTotal(r) ==
    /\ r # Raised
    /\ "total_points" \in DOMAIN r
    /\ r.total_points \in Int

\* C3: every analyzer entry point returns a result with a numeric total_points
\* for every combination of success, empty answer or raised exception of the
\* feeds; no exception reaches the caller.
C3_AnalyzersAlwaysAnswer ==
    /\ pc = "gap_done" => HasNumericTotal(gap_analysis)
    /\ pc = "internals_done" => HasNumericTotal(internals)
    /\ pc = "sectors_done" => HasNumericTotal(sectors)
    /\ pc = "technicals_done" => HasNumericTotal(technicals)

\* the technical analyzer answering although the quote and the Yahoo download
\* raised and yesterday's Tradier high of 0.0 made the body divide by zero
C3_Witness ==
    /\ pc = "technicals_done"
    /\ feeds.tq = QRaise
    /\ feeds.yh = YRaise
    /\ feeds.thy.kind = "one"
    /\ feeds.thy.bar.high = 0
    /\ ~feeds.fault
    /\ technicals.total_points = -100

QuoteFails(q) == q.kind # "ok"
HistoryFails(h) == h.kind \notin {"ok", "one"}
FrameFails(y) == y.kind # "ok"
BulkFails(b) == b.kind # "ok"

\* tags that name the static proxy tier
ProxyTags ==
    {"Proxy", "Proxy (Live Estimate)", "Proxy (Market Closed)", "Proxy Fallback",
     "Proxy Estimate"}

TaggedProxy(r) == Get(r, "data_source", "no data_source") \in ProxyTags

\* C4: when the primary and the secondary feed fail for every request, each of
\* the four analyzers returns a result with a numeric total_points whose
\* data_source tag names the proxy (the gap analyzer is looked at on a trading
\* day, where it does not answer in weekend mode).
C4_ProxyTagged ==
    /\ (/\ pc = "gap_done"
        /\ now.wd < 5
        /\ QuoteFails(feeds.tq) /\ HistoryFails(feeds.th) /\ FrameFails(feeds.yh)
        /\ HistoryFails(feeds.thd) /\ FrameFails(feeds.yhd))
         => HasNumericTotal(gap_analysis) /\ TaggedProxy(gap_analysis)
    /\ (/\ pc = "internals_done"
        /\ BulkFails(feeds.bulk)
        /\ \A x \in DOMAIN feeds.etf : FrameFails(feeds.etf[x]))
         => HasNumericTotal(internals) /\ TaggedProxy(internals)
    /\ (/\ pc = "sectors_done"
        /\ BulkFails(feeds.sbulk)
        /\ \A x \in DOMAIN feeds.ys : FrameFails(feeds.ys[x])
        /\ QuoteFails(feeds.tq) /\ FrameFails(feeds.yh))
         => HasNumericTotal(sectors) /\ TaggedProxy(sectors)
    /\ (/\ pc = "technicals_done"
        /\ QuoteFails(feeds.tq) /\ HistoryFails(feeds.th) /\ FrameFails(feeds.yh)
        /\ HistoryFails(feeds.thy) /\ FrameFails(feeds.yh2))
         => HasNumericTotal(technicals) /\ TaggedProxy(technicals)

TierOrder == <<"Tradier", "Yahoo", "Proxy">>
IsPrefix(a, b) == Len(a) <= Len(b) /\ a = SubSeq(b, 1, Len(a))

\* the primary tier answered with everything the resolver asks of it
QuoteGood(q) == q.kind = "ok" /\ q.last > 0
HistoryGood(h) == \E i \in 1..Len(HistDays(h)) : ValidBar(HistDays(h)[i])
PrimarySucceeds(resolver) ==
    IF resolver \in {"spy_data_enhanced", "spy_technical_data"}
      THEN QuoteGood(feeds.tq) /\ HistoryGood(feeds.th)
    ELSE IF resolver = "gap_data"
      THEN Len(HistDays(feeds.thd)) >= 2
           /\ \A i \in 1..Len(HistDays(feeds.thd)) : HistDays(feeds.thd)[i].close > 0
    ELSE IF resolver = "sector_data"
      THEN /\ feeds.sbulk.kind = "ok"
           /\ DOMAIN feeds.sbulk.q = SymbolSet
           /\ \A x \in SymbolSet : ~feeds.sbulk.q[x].bad
    ELSE IF resolver = "spy_change"
      THEN feeds.tq.kind = "ok"
    ELSE QuoteGood(feeds.tq)

\* C5: in every tiered resolver the tiers are tried in the order Tradier,
\* Yahoo, proxy, and when the primary feed call succeeds neither Yahoo nor the
\* proxy is invoked.
C5_TierOrdering ==
    \A resolver \in DOMAIN calls :
        calls[resolver] # <<>> =>
            /\ IsPrefix(calls[resolver], TierOrder)
            /\ PrimarySucceeds(resolver) => calls[resolver] = <<"Tradier">>

\* C6: in get_spy_data_enhanced and _get_spy_technical_data the result is
\* tagged 'Tradier' only when the VWAP and volume data it carries came from
\* Tradier, and is tagged as Yahoo or proxy whenever those came from there.
C6_SourceTagNamesTier ==
    pc \in {"spy_data_done", "spy_technical_done"} =>
        /\ spy_data.source = "Tradier"
             => /\ spy_data.vwap_data.source = "Tradier"
                /\ spy_data.volume_data = [current_volume |-> feeds.tq.volume,
                                           avg_volume |-> feeds.tq.avgvolume]
        /\ spy_data.vwap_data.source = "Yahoo (Fallback)"
             => spy_data.source = "Yahoo (Fallback)"
        /\ spy_data.vwap_data.source \in ProxyTags => spy_data.source \in ProxyTags

\* the sub-components a points_breakdown lists
ComponentKeys(pb) ==
    DOMAIN pb \ {"total_points", "total_base_points", "direction_multiplier",
                 "final_points"}

RECURSIVE SumOfKeys(_, _)
SumOfKeys(pb, keys) ==
    IF keys = {} THEN 0
    ELSE LET k == CHOOSE x \in keys : TRUE
         IN  pb[k] + SumOfKeys(pb, keys \ {k})

ComponentSum(r) == SumOfKeys(r.points_breakdown, ComponentKeys(r.points_breakdown))

\* C7: every result of the gap, internals and technical analyzers, weekend and
\* fixed fallback results included, has total_points equal to the sum of the
\* sub-component points of its points_breakdown (for the gap analyzer: times
\* the recorded direction multiplier).
C7_TotalIsSumOfComponents ==
    /\ pc = "gap_done" =>
         gap_analysis.total_points =
             IF "direction_multiplier" \in DOMAIN gap_analysis.points_breakdown
               THEN Div(ComponentSum(gap_analysis)
                        * gap_analysis.points_breakdown.direction_multiplier, 100)
               ELSE ComponentSum(gap_analysis)
    /\ pc = "internals_done" => internals.total_points = ComponentSum(internals)
    /\ pc = "technicals_done" => technicals.total_points = ComponentSum(technicals)


\* the momentum shift the trend analyzer finds in the intraday history that
\* get_spy_data_enhanced handed on
ShiftInHistory == detect_momentum_shifts(Get(spy_data, "historical", None))

\* C8: in a full analysis cycle the trend contribution includes the
\* momentum-shift points whenever a shift is detected in the SPY intraday
\* history, so that a detected +/-2.0 shift moves the corresponding total by
\* 2.0 (the program derives no EMA or acceleration points, so the shift points
\* are the whole contribution).
C8_TrendEntersTotals ==
    (pc = "done" /\ ShiftInHistory.shift_detected) =>
        /\ analysis.decision_breakdown.trend_contribution = ShiftInHistory.shift_points
        /\ analysis.bullish_points - analysis.bearish_points =
               Get(gap_analysis, "total_points", 0) + Get(internals, "total_points", 0)
               + Get(sectors, "total_points", 0) + Get(technicals, "total_points", 0)
               + ShiftInHistory.shift_points


\* the signal and urgency the score tiers 8, 5 and 3 assign
SignalOfScore(score) ==
    IF score >= 8 THEN <<"IMMEDIATE EXIT", "CRITICAL">>
    ELSE IF score >= 5 THEN <<"STRONG EXIT", "HIGH">>
    ELSE IF score >= 3 THEN <<"CONSIDER EXIT", "MEDIUM">>
    ELSE <<"HOLD", "LOW">>

\* C11: the primary_signal and urgency get_exit_signals returns are a function
\* of the score accumulated by the four checks alone: >= 8 IMMEDIATE
\* EXIT/CRITICAL, 5..7 STRONG EXIT/HIGH, 3..4 CONSIDER EXIT/MEDIUM, below 3
\* HOLD/LOW, whatever the time and loss tiers wrote before.
C11_SignalFromScore ==
    [][pc = "exit_final" =>
         <<exit_signals'.primary_signal, exit_signals'.urgency>>
             = SignalOfScore(exit_signals.exit_score)]_vars

\* a returned result where the final-hour tier wrote STRONG EXIT and a +4
\* profit tier brought the score to 9, reported as IMMEDIATE EXIT
C11_Witness ==
    /\ pc = "exit_done"
    /\ exit_signals.time_warnings = <<"Final hour">>
    /\ exit_signals.reasons = <<"STRONG PROFIT">>
    /\ exit_signals.exit_score = 9
    /\ exit_signals.primary_signal = "IMMEDIATE EXIT"
    /\ exit_signals.urgency = "CRITICAL"

\* HOLD/LOW < CONSIDER EXIT/MEDIUM < STRONG EXIT/HIGH < IMMEDIATE EXIT/CRITICAL
Severity(es) ==
    CASE es.primary_signal = "HOLD" -> 0
      [] es.primary_signal = "CONSIDER EXIT" -> 1
      [] es.primary_signal = "STRONG EXIT" -> 2
      [] es.primary_signal = "IMMEDIATE EXIT" -> 3

UrgencyRank(es) ==
    CASE es.urgency = "LOW" -> 0
      [] es.urgency = "MEDIUM" -> 1
      [] es.urgency = "HIGH" -> 2
      [] es.urgency = "CRITICAL" -> 3

\* C12: within one evaluation the checks run time, profit, loss, target, final
\* decision, and no step lowers the severity of primary_signal/urgency the
\* steps before it have set.
C12_SeverityNeverLowered ==
    [][/\ (pc = "exit_time" => pc' = "exit_profit")
       /\ (pc = "exit_profit" => pc' = "exit_loss")
       /\ (pc = "exit_loss" => pc' = "exit_target")
       /\ (pc = "exit_target" => pc' = "exit_final")
       /\ (pc = "exit_final" => pc' = "exit_done")
       /\ (pc \in {"exit_time", "exit_profit", "exit_loss", "exit_target", "exit_final"}
             => /\ Severity(exit_signals') >= Severity(exit_signals)
                /\ UrgencyRank(exit_signals') >= UrgencyRank(exit_signals))]_vars


\* C13: on a Saturday or a Sunday, at any hour, check_trading_window answers
\* not tradeable with a message saying that the market opens Monday.
C13_WeekendClosed ==
    (pc = "window_checked" /\ now.wd \in {5, 6}) =>
        /\ analysis.trading_window_ok = FALSE
        /\ analysis.window_message \in
               {"Weekend (Saturday) - Market opens Monday",
                "Weekend (Sunday) - Market opens Monday"}

\* a Sunday at 10:30, inside what is the prime window on a weekday
C13_Witness ==
    /\ pc = "window_checked"
    /\ now = [wd |-> 6, sec |-> HMS(10, 30, 0)]
    /\ analysis.trading_window_ok = FALSE
    /\ analysis.window_message = "Weekend (Sunday) - Market opens Monday"

\* the regime an instant belongs to, by weekday and time of day
RegimeOf(t) ==
    IF t.wd = 5 THEN "Weekend (Saturday) - Market opens Monday"
    ELSE IF t.wd = 6 THEN "Weekend (Sunday) - Market opens Monday"
    ELSE IF t.sec < HMS(9, 30, 0) THEN "Market opens in"
    ELSE IF t.sec < HMS(9, 45, 0) THEN "OPENING VOLATILITY"
    ELSE IF t.sec <= HMS(11, 0, 0) THEN "PRIME 0DTE WINDOW"
    ELSE IF t.sec < HMS(11, 30, 0) THEN "POST-WINDOW"
    ELSE IF t.sec < HMS(14, 30, 0) THEN "LUNCH DOLDRUMS"
    ELSE IF t.sec < HMS(16, 0, 0) THEN "DANGER ZONE"
    ELSE "Market closed - Next 0DTE window"

\* C16: check_trading_window gives every weekday and time of day exactly one
\* regime, and answers tradeable exactly on Monday to Friday from 09:45:00 to
\* 11:00:00, both bounds included; every other instant is not tradeable.
C16_WindowPartition ==
    pc = "window_checked" =>
        /\ analysis.window_message = RegimeOf(now)
        /\ analysis.trading_window_ok \in BOOLEAN
        /\ analysis.trading_window_ok <=>
               (now.wd \in 0..4 /\ HMS(9, 45, 0) <= now.sec /\ now.sec <= HMS(11, 0, 0))

\* a Friday at 11:00:00 sharp is still tradeable
C16_Witness ==
    /\ pc = "window_checked"
    /\ now = [wd |-> 4, sec |-> HMS(11, 0, 0)]
    /\ analysis.trading_window_ok = TRUE
    /\ analysis.window_message = "PRIME 0DTE WINDOW"


\* C14: gap-size points go by |gap_pct| with inclusive lower bounds, >= 2.5
\* 1.0 (MONSTER), [1.5, 2.5) 2.0 (LARGE), [0.75, 1.5) 1.5 (MEDIUM),
\* [0.5, 0.75) 1.0 (SMALL), below 0.5 0.0 (MINIMAL), and the category label
\* names the bucket the points came from.
C14_GapBuckets ==
    pc = "gap_scored" =>
        LET a == Abs(gap_analysis.gap_pct)
            pts == gap_analysis.points_breakdown.gap_size
            cat == gap_analysis.gap_size_category
        IN  /\ a >= 250 => (pts = 100 /\ cat = "MONSTER")
            /\ (150 <= a /\ a < 250) => (pts = 200 /\ cat = "LARGE")
            /\ (75 <= a /\ a < 150) => (pts = 150 /\ cat = "MEDIUM")
            /\ (50 <= a /\ a < 75) => (pts = 100 /\ cat = "SMALL")
            /\ a < 50 => (pts = 0 /\ cat = "MINIMAL")

\* a down gap of exactly 1.5% scored as LARGE with 2.0 points
C14_Witness ==
    /\ pc = "gap_scored"
    /\ gap_analysis.gap_pct = -150
    /\ gap_analysis.points_breakdown.gap_size = 200
    /\ gap_analysis.gap_size_category = "LARGE"

\* C15: final_points = base_points * m, where m is +-1.0 when the gap
\* direction and the VWAP side agree and +-0.5 when they disagree, and the
\* sign of m is the gap's direction.
C15_DirectionMultiplier ==
    pc = "gap_scored" =>
        LET g == gap_analysis.gap_pct
            d == gap_analysis.vwap_distance_pct
            pb == gap_analysis.points_breakdown
            m == pb.direction_multiplier
        IN  /\ pb.final_points * 100 = pb.total_base_points * m
            /\ gap_analysis.total_points = pb.final_points
            /\ m \in {-100, -50, 50, 100}
            /\ ((g < 0 /\ d < 0) \/ (g > 0 /\ d > 0)) => Abs(m) = 100
            /\ ((g < 0 /\ d > 0) \/ (g > 0 /\ d < 0)) => Abs(m) = 50
            /\ g < 0 => m < 0
            /\ g > 0 => m > 0

\* a 2.0% down gap with the price 0.3% above VWAP: base 4.0, final -2.0
C15_Witness ==
    /\ pc = "gap_scored"
    /\ gap_analysis.gap_pct = -200
    /\ gap_analysis.vwap_distance_pct = 30
    /\ gap_analysis.points_breakdown.total_base_points = 400
    /\ gap_analysis.points_breakdown.direction_multiplier = -50
    /\ gap_analysis.total_points = -200


\* C17: when neither the primary nor the secondary feed resolves the SPY
\* price/VWAP data, analyze_technicals returns the fixed fallback result, whose
\* total_points is -1.0.
C17_TechnicalsFallback ==
    (/\ pc = "technicals_done"
     /\ QuoteFails(feeds.tq) /\ HistoryFails(feeds.th) /\ FrameFails(feeds.yh))
        => /\ technicals.total_points = -100
           /\ technicals = get_fallback_technicals

\* the VWAP points of a distance in hundredths of a percent
VwapBucket(d) ==
    IF d > 30 THEN 200 ELSE IF d < -30 THEN -200
    ELSE IF d > 15 THEN 100 ELSE IF d < -15 THEN -100
    ELSE IF d > 5 THEN 50 ELSE IF d < -5 THEN -50
    ELSE 0

\* C20: in analyze_technicals, whichever tier supplied the VWAP, the distance
\* that is scored equals (current_price - vwap) / vwap * 100, and the VWAP
\* points are the bucket and sign of that distance: beyond 0.3 +-2.0, beyond
\* 0.15 +-1.0, beyond 0.05 +-0.5, else 0.
C20_VwapDistanceScored ==
    pc = "technicals_done" =>
        LET va == technicals.vwap_analysis
            d == Div((va.current_price - va.vwap) * 10000, va.vwap)
        IN  /\ va.distance_pct = d
            /\ technicals.points_breakdown.vwap = VwapBucket(d)


\* C18: when the bulk quote, every per-symbol secondary lookup and the
\* benchmark lookup all fail, analyze_sectors returns total_points = 0 with
\* rotation_signal NEUTRAL.
C18_SectorsNeutralFallback ==
    (/\ pc = "sectors_done"
     /\ BulkFails(feeds.sbulk)
     /\ \A x \in DOMAIN feeds.ys : FrameFails(feeds.ys[x])
     /\ QuoteFails(feeds.tq) /\ FrameFails(feeds.yh))
        => /\ sectors.total_points = 0
           /\ sectors.rotation_signal = "NEUTRAL"


\* the breadth symbols the primary feed resolved and the proxy indices the
\* secondary feed resolved, as analyze_market_internals gets to see them
BreadthResolved ==
    IF feeds.main_thread /\ feeds.bulk.kind = "ok"
      THEN {x \in {"$TICK", "$TRIN", "$NYAD"} :
              x \in DOMAIN feeds.bulk.q /\ ~feeds.bulk.q[x].null}
      ELSE {}

IndicesResolved ==
    IF feeds.main_thread
      THEN {x \in DOMAIN feeds.etf :
              feeds.etf[x].kind = "ok" /\ feeds.etf[x].rows[1].Open # 0}
      ELSE {}

\* C19: analyze_market_internals answers from exactly one of three paths taken
\* in order: real breadth scoring only when at least 2 of $TICK, $TRIN, $NYAD
\* resolve from the primary feed; otherwise the index proxy when at least 1
\* proxy index resolves; otherwise (no index resolves, or any exception) the
\* static fallback with total_points = -2.0, and never an error.
C19_InternalsPaths ==
    pc = "internals_done" =>
        LET nb == Cardinality(BreadthResolved)
            ne == Cardinality(IndicesResolved)
        IN  /\ HasNumericTotal(internals)
            /\ internals.data_quality \in
                   {"REAL BREADTH DATA", "EMERGENCY PROXY", "EMERGENCY FALLBACK"}
            /\ internals.data_quality = "REAL BREADTH DATA"
                   <=> (~feeds.fault /\ nb >= 2)
            /\ internals.data_quality = "EMERGENCY PROXY"
                   <=> (~feeds.fault /\ nb < 2 /\ ne >= 1)
            /\ internals.data_quality = "EMERGENCY FALLBACK"
                   <=> (feeds.fault \/ (nb < 2 /\ ne = 0))
            /\ internals.data_quality = "EMERGENCY FALLBACK"
                   => internals.total_points = -200

\* one breadth symbol resolved, which is not enough, and neither proxy index
\* did: the static fallback answers
C19_Witness ==
    /\ pc = "internals_done"
    /\ ~feeds.fault
    /\ Cardinality(BreadthResolved) = 1
    /\ Cardinality(IndicesResolved) = 0
    /\ internals.data_quality = "EMERGENCY FALLBACK"
    /\ internals.total_points = -200


\* the sum of the configured weights, in hundredths
WeightTotal == SumSeq([i \in 1..Len(SECTOR_SYMBOLS) |-> SECTOR_WEIGHTS[SECTOR_SYMBOLS[i]]])

C22_HourlyRequestCap ==
    calls.yf_download <= max_requests_per_hour

InCall == pc \in {"wait", "request"}

\* what holds of a call of safe_yahoo_download at every moment
DownloadShape ==
    download # NoResult =>
        /\ download.requests <= max_retries
        /\ download.last \in {"data", "error"} => pc = "returned"
        /\ pc = "returned" =>
             /\ download.requests >= 1
             /\ download.result \in {"data", "empty frame"}
             /\ download.result = "data" <=> download.last = "data"
             /\ download.last \in {"empty", "rate limit"} => download.requests = max_retries

C30_BackoffBounded ==
    /\ yahoo_limiter.backoff_factor >= 100
    /\ yahoo_limiter.backoff_factor <= backoff_cap


\* C24: get_exit_signals never modifies the position record it is given: the
\* entry fields, the targets dict and the trade_details dict are the same
\* before and after every step of every evaluation.
C24_PositionUntouched ==
    [][position' = position]_vars

\* an evaluation has run to its end on a position whose targets dict has no
\* keys, so that both reads fell back on their defaults
C24_Witness ==
    /\ pc = "exit_done"
    /\ position.targets = EmptyDict
    /\ exit_signals.exit_score > 0


\* the stored previous decision, if any
StoredSignal == Get(session_state, "previous_signal", NoSignal)

AlertCalled == pc = "analysed" /\ pc' = "idle" /\ session_state["alert_settings"].enabled

BreadthWeights == {0, 20, 30, 50, 60, 70, 80, 100}

DecisionFields == {"decision", "confidence", "bullish_points", "bearish_points", "raw_signal"}

TargetHit(es) == \E i \in 1..Len(es.reasons) : es.reasons[i] \in {"SPY TARGET HIT >=", "SPY TARGET HIT <="}

\* the targets the trade-entry form stores in every new record
FormTargets == [upside_target |-> 0, downside_target |-> 0]

\* C27: for a LONG position with upside_target = 0, the value the trade-entry
\* form stores, the target check adds its +5 on every evaluation, so the
\* result is never HOLD or CONSIDER EXIT and should_exit is true; for a SHORT
\* position with downside_target = 0 the target bonus is never added.
C27_ZeroTargets ==
    (pc \in {"exit_final", "exit_done"} /\ position.targets = FormTargets) =>
        /\ HasLONG(position.entry_decision) =>
              /\ TargetHit(exit_signals)
              /\ exit_signals.exit_score >= 5
              /\ pc = "exit_done" =>
                    /\ exit_signals.primary_signal \notin {"HOLD", "CONSIDER EXIT"}
                    /\ exit_signals.should_exit
        /\ HasSHORT(position.entry_decision) => ~TargetHit(exit_signals)

\* a LONG trade as the form stores it, evaluated with no other exit criterion
\* met: the target bonus alone makes it a STRONG EXIT
C27_Witness ==
    /\ pc = "exit_done"
    /\ position.targets = FormTargets
    /\ HasLONG(position.entry_decision)
    /\ exit_signals.exit_score = 5
    /\ exit_signals.primary_signal = "STRONG EXIT"
    /\ exit_signals.should_exit


\* C28: for every weekday result of _calculate_points_breakdown the base
\* points lie in 0.5..5.0, the fixed +0.5 futures-alignment term being always
\* included, so total_points is never 0: a gap_pct >= 0 (0 included) gives at
\* least +0.25 and a negative gap at most -0.25; a VWAP distance of exactly 0
\* is always scored as misaligned (half weight).
C28_GapPointsNeverZero ==
    pc = "gap_scored" =>
        LET pb == gap_analysis.points_breakdown
        IN  /\ pb.es_alignment = 50
            /\ pb.total_base_points >= 50 /\ pb.total_base_points <= 500
            /\ gap_analysis.total_points # 0
            /\ gap_analysis.gap_pct >= 0 => gap_analysis.total_points >= 25
            /\ gap_analysis.gap_pct < 0 => gap_analysis.total_points <= -25
            /\ gap_analysis.vwap_distance_pct = 0 =>
                  /\ pb.direction_multiplier \in {50, -50}
                  /\ 2 * Abs(gap_analysis.total_points) = pb.total_base_points

\* no gap, no VWAP distance and weak volume: the futures term alone, halved
C28_Witness ==
    /\ pc = "gap_scored"
    /\ gap_analysis.gap_pct = 0
    /\ gap_analysis.vwap_distance_pct = 0
    /\ gap_analysis.points_breakdown.total_base_points = 50
    /\ gap_analysis.total_points = 25


\* the advance measure of the index proxy, in hundredths
ProxyAdvance ==
    LET got == {sym \in DOMAIN feeds.etf : ProxyEtfOk(feeds, feeds.etf[sym])}
        adv == {sym \in got : ProxyEtfAdvancing(feeds.etf[sym])}
    IN  Div(Cardinality(adv) * 200, Cardinality(got)) - 100

\* C29: on the index-proxy path (SPY, QQQ) the advance measure takes only the
\* values -1, 0 and +1, so the four proxy sub-scores move together and the
\* proxy internals total_points is always one of -5.0, 0.0 and +5.0.
C29_ProxyTotals ==
    (pc = "internals_done" /\ internals.data_quality = "EMERGENCY PROXY") =>
        LET pb == internals.points_breakdown
        IN  /\ ProxyAdvance \in {-100, 0, 100}
            /\ pb.tick = 2 * ProxyAdvance
            /\ pb.trin = ProxyAdvance
            /\ pb.nyad = ProxyAdvance
            /\ pb.vold = ProxyAdvance
            /\ internals.total_points = 5 * ProxyAdvance
            /\ internals.total_points \in {-500, 0, 500}

\* one index advancing and the other declining: every sub-score is neutral
C29_Witness ==
    /\ pc = "internals_done"
    /\ internals.data_quality = "EMERGENCY PROXY"
    /\ ProxyAdvance = 0
    /\ internals.total_points = 0

=============================================================================
